---- MODULE Spec2Model ----
(***************************************************************************)
(* Request mediation of the healthcare services: identity, role and        *)
(* ownership checks, audit entries and the middleware pipeline.            *)
(*                                                                         *)
(* Every resolver call is one action: the whole handler runs, and the      *)
(* order of what it did inside the call (row fetch, access decision,       *)
(* decryption, mutation, audit write) is kept in the call's trace.         *)
(* SQL statements are modelled by the meaning of their text.               *)
(***************************************************************************)
EXTENDS Integers, Sequences, FiniteSets, TLC

\* ------------------------------------------------------------------ bounds
\* calls made in a behaviour: of one service (MaxCalls), of all services
\* together (MaxCallsAll)
MaxCalls == 2
MaxCallsAll == 1

\* ------------------------------------------------------------- value sets
NoRole == "<none>"
NoId == "<none>"

UserRoles == {"ADMIN", "PROVIDER", "NURSE", "RECEPTIONIST", "STAFF", "PATIENT", "GUARDIAN"}

\* role claims a token or identity can carry: the seven roles or no claim
RoleClaims == UserRoles \cup {NoRole}

Subs == {"u1", "u2"}

NoIdentity == [sub |-> NoId, role |-> NoRole]

\* event.identity of a resolver call: null, or a Cognito identity with a
\* sub and an optional custom:role claim
Identities == [sub : Subs, role : RoleClaims] \cup {NoIdentity}

PatientIds == {"p1", "p2", "p3"}
RecordIds == {"r1", "r2"}

AppointmentIds == {"a1", "a2"}
Contents == {"c1", "c2"}

\* table patient_guardians (guardian_id, patient_id): u2 is a guardian of
\* patient p1; no operation of the services modelled writes this table
patient_guardians == {<<"u2", "p1">>}

\* ------------------------------------------------------------------ state
VARIABLES
    patients,        \* table patients: id -> row
    medical_records, \* table medical_records: id -> row
    appointments,    \* table appointments: id -> row
    users,           \* table users: set of user ids
    audit,           \* audit entries written so far, both stores, in order
    accessLog,       \* table medical_record_access_logs: number of rows
    callNo,          \* number of calls made
    last,            \* the last call: request, outcome, trace
    snapshot,        \* a request or response body handed to a sanitizer
    redacted,        \* what a sanitizer made of it
    registered,      \* the users row the last register call inserted
    validated,       \* the last call of validateUserRoleAndType and its answer
    userPool,        \* the accounts of the Cognito user pool created by register
    phiText,         \* a PHI string handed to EncryptionService
    dataKey,         \* the data key the PHI string is encrypted under
    packed,          \* what encryptPHI returned for it
    decrypted,       \* the last call of decryptPHI: its arguments and outcome
    wrapped,         \* what encryptWithKMS returned for the string
    unwrapped,       \* the outcome of decryptWithKMS on it
    repacked,        \* what a second call of encryptPHI returned for the string
    rewrapped,       \* what a second call of encryptWithKMS returned for it
    drawn,           \* the random values drawn so far
    middlewares,     \* the middlewares handed to compose, outermost first
    composed,        \* the handler compose built from them
    entered,         \* what a call of that handler entered and left, in order
    transactionId,   \* db.transactionId, the field of the one DatabaseClient
    rdsTx,           \* the transactions of the cluster: id -> owner, state, writes
    persisted,       \* the writes the cluster has committed
    dbCalls,         \* the calls using db: call -> plan, position, id awaited
    dbLog,           \* the statements, commits and rollbacks sent, by call and transaction
    thrown,          \* an error thrown inside a handler that withErrorHandler wraps
    answered,        \* the response withErrorHandler returned for it
    requested,       \* a request handed to the handler of patient-service
    responded,       \* what the pipeline answered, and how often it called the handler
    auditTable,      \* the items of the DynamoDB table of createAuditLog
    queried,         \* the last call of queryAuditLogs: its filters and items
    paged,           \* a walk through the pages of queryAuditLogs: filters, token, items so far
    masking,         \* a call of maskSensitiveData: its arguments and what it returned
    booking,         \* the createAppointment / updateAppointment calls in flight
    admitting,       \* the createPatient calls in flight
    routing          \* a login request of handlers/login: its user and where it went

serviceVars == <<patients, medical_records, appointments, users, audit, accessLog, callNo, last>>

\* state of the library functions, which no service call touches
redactVars == <<snapshot, redacted>>
registerVars == <<registered, validated, userPool>>
cryptoVars == <<phiText, dataKey, packed, decrypted, wrapped, unwrapped,
                repacked, rewrapped, drawn>>
composeVars == <<middlewares, composed, entered>>
dbVars == <<transactionId, rdsTx, persisted, dbCalls, dbLog>>
errorVars == <<thrown, answered>>
validateVars == <<requested, responded>>
queryVars == <<auditTable, queried, paged>>
lateVars == <<masking, booking, admitting, routing>>
restVars == <<validateVars, queryVars, lateVars>>
moreVars == <<composeVars, dbVars, errorVars, restVars>>
utilVars == <<redactVars, registerVars, cryptoVars, moreVars>>

vars == <<patients, medical_records, appointments, users, audit, accessLog, callNo, last,
          snapshot, redacted, registered, validated, userPool,
          phiText, dataKey, packed, decrypted, wrapped, unwrapped,
          repacked, rewrapped, drawn, middlewares, composed, entered,
          transactionId, rdsTx, persisted, dbCalls, dbLog, thrown, answered,
          requested, responded, auditTable, queried, paged,
          masking, booking, admitting, routing>>

\* the values of the library state before any library call
NoAccount == [id |-> NoId, role |-> NoRole, user_type |-> NoId]
NoValidation == [role |-> NoRole, userType |-> NoId, valid |-> FALSE, called |-> FALSE]
NoKey == "<no key>"
NoText == <<"<nothing>">>
NoPacked == <<>>
NoOutcome == [ok |-> FALSE, text |-> NoText]
NoDecryption == [encryptedData |-> NoPacked, key |-> NoKey, ok |-> FALSE, text |-> NoText,
                 cls |-> "", called |-> FALSE]

IdleRegister == registered = NoAccount /\ validated = NoValidation /\ userPool = {}

IdleCrypto ==
    /\ phiText = NoText
    /\ dataKey = NoKey
    /\ packed = NoPacked
    /\ decrypted = NoDecryption
    /\ wrapped = NoText
    /\ unwrapped = NoOutcome
    /\ repacked = NoPacked
    /\ rewrapped = NoText
    /\ drawn = {}

NoHandler == <<>>

IdleCompose == middlewares = <<>> /\ composed = NoHandler /\ entered = <<>>

\* db.transactionId = undefined
NoTx == "<no transaction>"

TxIds == {"t1", "t2"}

DbCalls == {"c1", "c2"}

NoRdsTx == [t \in TxIds |-> [owner |-> NoId, state |-> "none", writes |-> {}]]

IdleDb ==
    /\ transactionId = NoTx
    /\ rdsTx = NoRdsTx
    /\ persisted = {}
    /\ dbCalls = [c \in DbCalls |-> [plan |-> "none", pc |-> "done", awaited |-> NoTx]]
    /\ dbLog = {}

NoError == [cls |-> "", err |-> ""]
NoResponse == [called |-> FALSE, by |-> "", status |-> 0, code |-> "", err |-> ""]

IdleErrors == thrown = NoError /\ answered = NoResponse

NoRequest ==
    [token |-> NoIdentity,
     body |-> [valid |-> FALSE, fieldName |-> NoId, id |-> NoId,
               input |-> [userId |-> NoId, preferredLanguage |-> NoId], query |-> NoId]]
NoReply == [called |-> FALSE, status |-> 0, code |-> "", handled |-> 0]

IdleValidate == requested = NoRequest /\ responded = NoReply

\* filters of queryAuditLogs with every field undefined: userId and
\* resource NoId, phiAccessed the empty set, the dates 0
NoFilters == [userId |-> NoId, resource |-> NoId, phiAccessed |-> {}, startDate |-> 0,
              endDate |-> 0, limit |-> 0, nextToken |-> <<>>]
NoQuery == [called |-> FALSE, filters |-> NoFilters, items |-> {}]
NoPaging == [active |-> FALSE, filters |-> NoFilters, table |-> {}, token |-> <<>>,
             seen |-> <<>>, done |-> FALSE]

IdleQuery == auditTable = {} /\ queried = NoQuery /\ paged = NoPaging

NoMasking == [data |-> <<>>, visibleChars |-> 0, out |-> <<>>, called |-> FALSE]
BookingCalls == {"c1", "c2"}
NoBooking ==
    [c \in BookingCalls |->
        [pc |-> "idle", identity |-> NoIdentity, err |-> "",
         input |-> [patientId |-> NoId, providerId |-> NoId, appointmentDate |-> NoId,
                    status |-> NoId]]]
NoAdmitting ==
    [c \in BookingCalls |->
        [pc |-> "idle", identity |-> NoIdentity, patientId |-> NoId, userId |-> NoId,
         mrn |-> 0, err |-> ""]]
NoRouting ==
    [called |-> FALSE, role |-> "", userType |-> "", credentials |-> "", row |-> FALSE,
     routed |-> "", ok |-> FALSE, err |-> ""]

IdleMask == masking = NoMasking
IdleBooking == booking = NoBooking
IdleAdmitting == admitting = NoAdmitting
IdleRouting == routing = NoRouting

IdleLate == IdleMask /\ IdleBooking /\ IdleAdmitting /\ IdleRouting

IdleRest == IdleValidate /\ IdleQuery /\ IdleLate

IdleMore == IdleCompose /\ IdleDb /\ IdleErrors /\ IdleRest

\* the TTL createAuditLog adds, in seconds: 7 * 365 * 24 * 60 * 60
SevenYears == 7 * 365 * 24 * 60 * 60

\* one audit entry; store "sql" is table audit_logs (logHipaaEvent), store
\* "dynamo" is the audit table (createAuditLog); statusCode 0 = no such field.
\* call is also the time the entry is created at, in seconds; ttl is the
\* attribute createAuditLog adds, 0 = the row has no expiry: the insert of
\* logHipaaEvent names the columns id, user_id, action, resource,
\* resource_id, phi_accessed and timestamp only
AuditEntry(call, store, phi, statusCode) ==
    [call |-> call, store |-> store, phi |-> phi, statusCode |-> statusCode,
     ttl |-> IF store = "dynamo" THEN call + SevenYears ELSE 0]

\* outcome of a handler: err = "" on a normal return, else the message of
\* the error thrown; cls is the class of the error, status and secure belong
\* to an HTTP response (kind "response"), ctx is the actor context the
\* access checks of the call were evaluated on
Result(err, data, trace, entries, tbl) ==
    [kind |-> IF err = "" THEN "return" ELSE "throw",
     cls |-> IF err = "" THEN "" ELSE "Error",
     err |-> err, data |-> data, trace |-> trace, entries |-> entries, tbl |-> tbl,
     status |-> 0, code |-> "", secure |-> FALSE, ctx |-> NoIdentity]

Throw(cls, err, trace, tbl) ==
    [Result(err, {}, trace, <<>>, tbl) EXCEPT !.cls = cls]

\* p.user_id of the patient a row points to (LEFT JOIN patients p)
patient_user_id(pats, patient_id) ==
    IF patient_id \in DOMAIN pats /\ pats[patient_id].exists
    THEN pats[patient_id].user_id ELSE NoId

\* ------------------------------------------------ medical-record-service
\* the access check of getMedicalRecord: TRUE = throw 'Access denied'
getMedicalRecordDenied(userRole, userId, ownerUserId) ==
    userRole = "PATIENT" /\ ownerUserId # userId

getMedicalRecord(id, identity, recs, pats, call) ==
    LET userId == identity.sub
        userRole == identity.role
        record == recs[id]
    IN  IF ~record.exists
        THEN Result("Medical record not found", {}, <<"fetch">>, <<>>, recs)
        ELSE IF getMedicalRecordDenied(userRole, userId, patient_user_id(pats, record.patient_id))
        THEN Result("Access denied to medical record", {}, <<"fetch", "deny">>, <<>>, recs)
        ELSE Result("", {id}, <<"fetch", "allow", "decrypt", "accesslog", "audit">>,
                    <<AuditEntry(call, "sql", TRUE, 0)>>, recs)

\* the role-based WHERE clauses of listMedicalRecords
listMedicalRecordsRows(filter, identity, recs, pats) ==
    {r \in DOMAIN recs :
        /\ recs[r].exists
        /\ (identity.role = "PATIENT"
              => patient_user_id(pats, recs[r].patient_id) = identity.sub)
        /\ (identity.role = "PROVIDER" /\ filter = NoId
              => recs[r].provider_id = identity.sub)
        /\ (filter # NoId => recs[r].patient_id = filter)}

listMedicalRecords(filter, identity, recs, pats) ==
    Result("", listMedicalRecordsRows(filter, identity, recs, pats), <<"fetch">>, <<>>, recs)

createMedicalRecordAllowed(userRole) ==
    userRole \in {"PROVIDER", "ADMIN", "NURSE"}

\* updateMedicalRecord: TRUE = throw 'Access denied to update'
updateMedicalRecordDenied(userRole, userId, provider_id) ==
    provider_id # userId /\ userRole # "ADMIN"

\* a role check that also lets the provider role delete
deleteMedicalRecordAllowedForProviders(userRole) ==
    userRole \in {"ADMIN", "PROVIDER"}

deleteMedicalRecordAllowed(userRole) ==
    userRole = "ADMIN"

\* crypto.randomUUID(): an id no row of the table has
FreshIds(tbl) == {i \in DOMAIN tbl : ~tbl[i].exists}

createMedicalRecord(input, recordId, identity, recs, pats, call) ==
    IF ~createMedicalRecordAllowed(identity.role)
    THEN Result("Insufficient permissions to create medical record", {}, <<"deny">>, <<>>, recs)
    ELSE IF ~(input.patientId \in DOMAIN pats /\ pats[input.patientId].exists)
    THEN Result("Patient not found", {}, <<"allow">>, <<>>, recs)
    ELSE Result("", {recordId}, <<"allow", "encrypt", "mutate", "accesslog", "audit">>,
                <<AuditEntry(call, "sql", TRUE, 0)>>,
                [recs EXCEPT ![recordId] =
                    [exists |-> TRUE, patient_id |-> input.patientId,
                     provider_id |-> input.providerId, is_active |-> TRUE,
                     content |-> input.content]])

updateMedicalRecord(id, input, identity, recs, pats, call) ==
    LET existing == recs[id]
    IN  IF ~existing.exists
        THEN Result("Medical record not found", {}, <<"fetch">>, <<>>, recs)
        ELSE IF updateMedicalRecordDenied(identity.role, identity.sub, existing.provider_id)
        THEN Result("Access denied to update medical record", {}, <<"fetch", "deny">>, <<>>, recs)
        ELSE Result("", {id}, <<"fetch", "allow", "mutate", "accesslog", "audit">>,
                    <<AuditEntry(call, "sql", TRUE, 0)>>,
                    [recs EXCEPT ![id].content = input.content])

\* db.update on an id without a row changes nothing
deleteMedicalRecord(id, identity, recs, call) ==
    IF ~deleteMedicalRecordAllowed(identity.role)
    THEN Result("Only administrators can delete medical records", {}, <<"deny">>, <<>>, recs)
    ELSE Result("", {}, <<"allow", "mutate", "audit">>,
                <<AuditEntry(call, "sql", TRUE, 0)>>,
                IF recs[id].exists
                THEN [recs EXCEPT ![id].is_active = FALSE]
                ELSE recs)

MedicalRecordFields ==
    {"getMedicalRecord", "listMedicalRecords", "createMedicalRecord",
     "updateMedicalRecord", "deleteMedicalRecord"}

MedicalRecordInputs ==
    [patientId : PatientIds, providerId : Subs, content : {"c2"}]

\* the exported resolver of medical-record-service; args.id = NoId is a
\* call without the id argument
medicalRecordHandler(fieldName, id, input, freshId, identity, recs, pats, call) ==
    IF identity = NoIdentity
    THEN Result("Unauthorized", {}, <<"authn_fail">>, <<>>, recs)
    ELSE IF fieldName = "listMedicalRecords"
    THEN listMedicalRecords(input.patientId, identity, recs, pats)
    ELSE IF fieldName = "createMedicalRecord"
    THEN createMedicalRecord(input, freshId, identity, recs, pats, call)
    ELSE IF id = NoId
    THEN Result("Medical record ID is required", {}, <<>>, <<>>, recs)
    ELSE IF fieldName = "getMedicalRecord"
    THEN getMedicalRecord(id, identity, recs, pats, call)
    ELSE IF fieldName = "updateMedicalRecord"
    THEN updateMedicalRecord(id, input, identity, recs, pats, call)
    ELSE deleteMedicalRecord(id, identity, recs, call)

\* --------------------------------------------------- appointment-service
Dates == {"d1", "d2"}

\* the access check of getAppointment and updateAppointment: TRUE = throw
appointmentDenied(userRole, userId, ownerUserId) ==
    userRole = "PATIENT" /\ ownerUserId # userId

getAppointment(id, identity, appts, pats, call) ==
    LET appointment == appts[id]
    IN  IF ~appointment.exists
        THEN Result("Appointment not found", {}, <<"fetch">>, <<>>, appts)
        ELSE IF appointmentDenied(identity.role, identity.sub,
                                  patient_user_id(pats, appointment.patient_id))
        THEN Result("Access denied to appointment", {}, <<"fetch", "deny">>, <<>>, appts)
        ELSE Result("", {id}, <<"fetch", "allow", "audit">>,
                    <<AuditEntry(call, "sql", TRUE, 0)>>, appts)

listAppointmentsRows(filter, identity, appts, pats) ==
    {a \in DOMAIN appts :
        /\ appts[a].exists
        /\ (identity.role = "PATIENT"
              => patient_user_id(pats, appts[a].patient_id) = identity.sub)
        /\ (identity.role = "PROVIDER" /\ filter = NoId
              => appts[a].provider_id = identity.sub)
        /\ (filter # NoId => appts[a].patient_id = filter)}

listAppointments(filter, identity, appts, pats) ==
    Result("", listAppointmentsRows(filter, identity, appts, pats), <<"fetch">>, <<>>, appts)

\* status NOT IN ('CANCELLED', 'NO_SHOW')
Booked(row) == row.exists /\ row.status \notin {"CANCELLED", "NO_SHOW"}

\* getAvailableSlots reads appointment_date and duration of the provider's
\* booked appointments; the slots it returns name no appointment
getAvailableSlots(providerId, date, appts) ==
    Result("", {}, <<"slots">>, <<>>, appts)

createAppointmentDenied(userRole, userId, ownerUserId) ==
    userRole = "PATIENT" /\ ownerUserId # userId

conflictingAppointment(input, appts) ==
    \E a \in DOMAIN appts :
        /\ Booked(appts[a])
        /\ appts[a].provider_id = input.providerId
        /\ appts[a].appointment_date = input.appointmentDate

createAppointment(input, appointmentId, identity, appts, pats, call) ==
    IF ~(input.patientId \in DOMAIN pats /\ pats[input.patientId].exists)
    THEN Result("Patient not found", {}, <<"fetch">>, <<>>, appts)
    ELSE IF createAppointmentDenied(identity.role, identity.sub, pats[input.patientId].user_id)
    THEN Result("Cannot create appointment for another patient", {}, <<"fetch", "deny">>, <<>>, appts)
    ELSE IF conflictingAppointment(input, appts)
    THEN Result("Time slot is not available", {}, <<"fetch", "allow">>, <<>>, appts)
    ELSE Result("", {appointmentId}, <<"fetch", "allow", "mutate", "audit">>,
                <<AuditEntry(call, "sql", TRUE, 0)>>,
                [appts EXCEPT ![appointmentId] =
                    [exists |-> TRUE, patient_id |-> input.patientId,
                     provider_id |-> input.providerId,
                     appointment_date |-> input.appointmentDate,
                     status |-> "SCHEDULED"]])

updateAppointment(id, input, identity, appts, pats, call) ==
    LET existing == appts[id]
    IN  IF ~existing.exists
        THEN Result("Appointment not found", {}, <<"fetch">>, <<>>, appts)
        ELSE IF appointmentDenied(identity.role, identity.sub,
                                  patient_user_id(pats, existing.patient_id))
        THEN Result("Access denied to update appointment", {}, <<"fetch", "deny">>, <<>>, appts)
        ELSE Result("", {id}, <<"fetch", "allow", "mutate", "audit">>,
                    <<AuditEntry(call, "sql", TRUE, 0)>>,
                    [appts EXCEPT
                        ![id].appointment_date =
                            IF input.appointmentDate # NoId THEN input.appointmentDate ELSE @,
                        ![id].status = IF input.status # NoId THEN input.status ELSE @])

\* cancelAppointment and confirmAppointment: db.update, then logHipaaEvent,
\* then formatAppointment of the returned row, which throws a TypeError on
\* the null that db.update returns when no row has the id
setAppointmentStatus(id, status, identity, appts, call) ==
    IF appts[id].exists
    THEN Result("", {id}, <<"mutate", "audit">>, <<AuditEntry(call, "sql", TRUE, 0)>>,
                [appts EXCEPT ![id].status = status])
    ELSE [Result("Cannot read properties of null", {}, <<"mutate", "audit">>,
                 <<AuditEntry(call, "sql", TRUE, 0)>>, appts) EXCEPT !.cls = "TypeError"]

cancelAppointment(id, identity, appts, call) ==
    setAppointmentStatus(id, "CANCELLED", identity, appts, call)

confirmAppointment(id, identity, appts, call) ==
    setAppointmentStatus(id, "CONFIRMED", identity, appts, call)

NoApptInput == [patientId |-> NoId, providerId |-> NoId, appointmentDate |-> NoId, status |-> NoId]

AppointmentRequests ==
    [fieldName : {"getAppointment", "cancelAppointment", "confirmAppointment"},
     id : AppointmentIds \cup {NoId}, input : {NoApptInput}]
    \cup [fieldName : {"listAppointments"}, id : {NoId},
          input : [patientId : PatientIds \cup {NoId}, providerId : {NoId},
                   appointmentDate : {NoId}, status : {NoId}]]
    \cup [fieldName : {"getAvailableSlots"}, id : {NoId},
          input : [patientId : {NoId}, providerId : {"u2"},
                   appointmentDate : {"d1"}, status : {NoId}]]
    \cup [fieldName : {"createAppointment"}, id : {NoId},
          input : [patientId : PatientIds, providerId : {"u2"},
                   appointmentDate : Dates, status : {NoId}]]
    \cup [fieldName : {"updateAppointment"}, id : AppointmentIds,
          input : [patientId : {NoId}, providerId : {NoId},
                   appointmentDate : {"d2", NoId}, status : {NoId, "SCHEDULED"}]]

\* the exported resolver of appointment-service
appointmentHandler(fieldName, id, input, freshId, identity, appts, pats, call) ==
    IF identity = NoIdentity
    THEN Result("Unauthorized", {}, <<"authn_fail">>, <<>>, appts)
    ELSE IF fieldName = "listAppointments"
    THEN listAppointments(input.patientId, identity, appts, pats)
    ELSE IF fieldName = "getAvailableSlots"
    THEN getAvailableSlots(input.providerId, input.appointmentDate, appts)
    ELSE IF fieldName = "createAppointment"
    THEN createAppointment(input, freshId, identity, appts, pats, call)
    ELSE IF id = NoId
    THEN Result("Appointment ID is required", {}, <<>>, <<>>, appts)
    ELSE IF fieldName = "getAppointment"
    THEN getAppointment(id, identity, appts, pats, call)
    ELSE IF fieldName = "updateAppointment"
    THEN updateAppointment(id, input, identity, appts, pats, call)
    ELSE IF fieldName = "cancelAppointment"
    THEN cancelAppointment(id, identity, appts, call)
    ELSE confirmAppointment(id, identity, appts, call)

\* -------------------------------------------------------- patient-service
\* functions: the role checks inside the patient functions
getPatientRoleStaff(role) == role \in {"PROVIDER", "ADMIN", "NURSE"}

listPatientsRoleAllowed(role) == role \in {"PROVIDER", "ADMIN", "NURSE", "RECEPTIONIST"}

createPatientRoleAllowed(role) == role \in {"ADMIN", "RECEPTIONIST"}

updatePatientRoleAllowed(role) == role \in {"PROVIDER", "ADMIN", "NURSE"}

deletePatientRoleAllowed(role) == role = "ADMIN"

\* rows of SELECT * FROM patients WHERE user_id = $1
PatientRowsOfUser(pats, userId) ==
    {p \in DOMAIN pats : pats[p].exists /\ pats[p].user_id = userId}

\* getPatient: first is the row the database returns first when several
\* rows match (the query has no ORDER BY)
getPatient(id, ctx, first, pats) ==
    IF ctx.role = "PATIENT"
    THEN IF PatientRowsOfUser(pats, ctx.sub) = {}
         THEN Result("", {}, <<"allow", "fetch">>, <<>>, pats)
         ELSE Result("", {first}, <<"allow", "fetch", "decrypt">>, <<>>, pats)
    ELSE IF getPatientRoleStaff(ctx.role)
    THEN IF id \in DOMAIN pats /\ pats[id].exists
         THEN Result("", {id}, <<"allow", "fetch", "decrypt">>, <<>>, pats)
         ELSE Result("", {}, <<"allow", "fetch">>, <<>>, pats)
    ELSE Throw("Error", "Unauthorized", <<"deny">>, pats)

\* a function called after the lambda's own check: the trace of the call is
\* the lambda's decision followed by the function's trace
After(ev, res) == [res EXCEPT !.trace = <<ev>> \o @]

listPatients(ctx, pats) ==
    IF ~listPatientsRoleAllowed(ctx.role)
    THEN Throw("Error", "Unauthorized", <<"deny">>, pats)
    ELSE Result("", {p \in DOMAIN pats : pats[p].exists},
                <<"allow", "fetch", "decrypt">>, <<>>, pats)

searchPatients(ctx, pats) ==
    IF ~listPatientsRoleAllowed(ctx.role)
    THEN Throw("Error", "Unauthorized", <<"deny">>, pats)
    ELSE Result("", {p \in DOMAIN pats : pats[p].exists},
                <<"allow", "fetch", "decrypt">>, <<>>, pats)

\* generateMRN: COUNT(*) of patients plus one
generateMRN(pats) == Cardinality({p \in DOMAIN pats : pats[p].exists}) + 1

createPatient(input, patientId, ctx, pats) ==
    IF ~createPatientRoleAllowed(ctx.role)
    THEN Throw("Error", "Unauthorized", <<"deny">>, pats)
    ELSE LET inserted == [pats EXCEPT ![patientId] =
                            [exists |-> TRUE, user_id |-> input.userId, is_active |-> TRUE,
                             mrn |-> generateMRN(pats), lang |-> "en"]]
             created == getPatient(patientId, ctx, patientId, inserted)
         IN  [created EXCEPT !.trace = <<"allow", "encrypt", "mutate">> \o @,
                             !.tbl = inserted]

updatePatient(id, input, ctx, first, pats) ==
    IF ~updatePatientRoleAllowed(ctx.role)
    THEN Throw("Error", "Unauthorized", <<"deny">>, pats)
    ELSE LET updated == IF id \in DOMAIN pats /\ pats[id].exists
                        THEN [pats EXCEPT ![id].lang = input.preferredLanguage]
                        ELSE pats
             read == getPatient(id, ctx, first, updated)
         IN  [read EXCEPT !.trace = <<"allow", "mutate">> \o @, !.tbl = updated]

\* deletePatient returns !!result: data = {id} stands for true, {} for false
deletePatient(id, ctx, pats) ==
    IF ~deletePatientRoleAllowed(ctx.role)
    THEN Throw("Error", "Unauthorized", <<"deny">>, pats)
    ELSE IF id \in DOMAIN pats /\ pats[id].exists
    THEN Result("", {id}, <<"allow", "mutate">>, <<>>, [pats EXCEPT ![id].is_active = FALSE])
    ELSE Result("", {}, <<"allow", "mutate">>, <<>>, pats)

\* lambda: authorize(allowedRoles)(context)
authorize(allowedRoles, ctx) == ctx.role \in allowedRoles

\* lambda: the guardianFor list of an actor context; neither authenticate nor
\* convertToAppSyncHandler puts one on the context
guardianFor(ctx) == {}

\* lambda: hasPatientAccess
hasPatientAccess(ctx, patientId) ==
    \/ ctx.role = "ADMIN"
    \/ ctx.role = "DOCTOR"
    \/ ctx.role = "NURSE"
    \/ ctx.role = "PATIENT" /\ ctx.sub = patientId
    \/ ctx.role = "GUARDIAN" /\ patientId \in guardianFor(ctx)

NoPatientInput == [userId |-> NoId, preferredLanguage |-> NoId]

\* lambda: baseHandler; ctx is event.authContext, a NoId argument is absent
baseHandler(fieldName, id, input, query, ctx, first, freshId, pats) ==
    IF fieldName = "getPatient"
    THEN IF id \in {NoId, ""}
         THEN Throw("errors.ValidationError", "Patient ID is required", <<>>, pats)
         ELSE IF ~hasPatientAccess(ctx, id)
         THEN Throw("errors.UnauthorizedError",
                    "You do not have access to this patient's information", <<"deny">>, pats)
         ELSE After("allow", getPatient(id, ctx, first, pats))
    ELSE IF fieldName = "listPatients"
    THEN IF ~authorize({"ADMIN", "DOCTOR", "NURSE"}, ctx)
         THEN Throw("Error", "Insufficient permissions", <<"deny">>, pats)
         ELSE After("allow", listPatients(ctx, pats))
    ELSE IF fieldName = "searchPatients"
    THEN IF ~authorize({"ADMIN", "DOCTOR", "NURSE"}, ctx)
         THEN Throw("Error", "Insufficient permissions", <<"deny">>, pats)
         ELSE IF query = NoId
         THEN Throw("errors.ValidationError", "Search query is required", <<"allow">>, pats)
         ELSE After("allow", searchPatients(ctx, pats))
    ELSE IF fieldName = "createPatient"
    THEN IF ~authorize({"ADMIN", "DOCTOR"}, ctx)
         THEN Throw("Error", "Insufficient permissions", <<"deny">>, pats)
         ELSE IF input = NoPatientInput
         THEN Throw("errors.ValidationError", "Patient input is required", <<"allow">>, pats)
         ELSE After("allow", createPatient(input, freshId, ctx, pats))
    ELSE IF fieldName = "updatePatient"
    THEN IF id \in {NoId, ""}
         THEN Throw("errors.ValidationError", "Patient ID is required", <<>>, pats)
         ELSE IF input = NoPatientInput
         THEN Throw("errors.ValidationError", "Update input is required", <<>>, pats)
         ELSE IF ~hasPatientAccess(ctx, id)
         THEN Throw("errors.UnauthorizedError",
                    "You do not have permission to update this patient's information",
                    <<"deny">>, pats)
         ELSE After("allow", updatePatient(id, input, ctx, first, pats))
    ELSE IF fieldName = "deletePatient"
    THEN IF ~authorize({"ADMIN"}, ctx)
         THEN Throw("Error", "Insufficient permissions", <<"deny">>, pats)
         ELSE IF id \in {NoId, ""}
         THEN Throw("errors.ValidationError", "Patient ID is required", <<"allow">>, pats)
         ELSE After("allow", deletePatient(id, ctx, pats))
    ELSE Throw("errors.ValidationError", "Unknown operation", <<>>, pats)

\* lambda: convertToAppSyncHandler builds the actor context of the business
\* handler from event.identity, with defaults for what is missing
convertToAppSyncHandler(identity) ==
    [sub |-> IF identity = NoIdentity THEN "" ELSE identity.sub,
     role |-> IF identity.role = NoRole THEN "PATIENT" ELSE identity.role]

\* ------------------------------------------------------------ auth-service
\* login of auth-service: cognito is what InitiateAuth does ("ok", "empty":
\* a response without AuthenticationResult, or the code of the error it
\* throws), userId the Username GetUser returns
CognitoOutcomes == {"ok", "empty", "NotAuthorizedException", "UserNotConfirmedException", "other"}

\* the messages of the errors Cognito, the database or KMS can throw
InternalMessages == {"connection refused", "relation users does not exist"}

\* the catch of login: what it throws for the error e it caught
loginCatch(e) ==
    IF e.cls = "NotAuthorizedException"
    THEN [cls |-> "errors.UnauthorizedError", code |-> "UNAUTHORIZED",
          err |-> "Invalid email or password"]
    ELSE IF e.cls = "UserNotConfirmedException"
    THEN [cls |-> "errors.UnauthorizedError", code |-> "UNAUTHORIZED",
          err |-> "Email address not verified"]
    ELSE IF e.cls \in {"errors.AppError", "errors.ValidationError", "errors.UnauthorizedError",
                       "errors.ForbiddenError", "errors.NotFoundError", "errors.ConflictError"}
    THEN [cls |-> e.cls, code |-> e.code, err |-> e.err]
    ELSE [cls |-> "errors.AppError", code |-> "LOGIN_ERROR", err |-> "Login failed: " \o e.err]

\* the catch of register
registerCatch(e) ==
    IF e.cls = "UsernameExistsException"
    THEN [cls |-> "errors.ConflictError", code |-> "CONFLICT",
          err |-> "User with this email already exists"]
    ELSE [cls |-> "errors.AppError", code |-> "REGISTRATION_ERROR",
          err |-> "Registration failed: " \o e.err]

\* the message register throws for an error with message internal
registerFailed(internal) == registerCatch([cls |-> "Error", code |-> "", err |-> internal]).err

\* internal is the message of the error when cognito = "other"
login(cognito, internal, userId, usrs, call) ==
    IF cognito = "NotAuthorizedException"
    THEN Throw("errors.UnauthorizedError", "Invalid email or password", <<"authn_fail">>, usrs)
    ELSE IF cognito = "UserNotConfirmedException"
    THEN Throw("errors.UnauthorizedError", "Email address not verified", <<"authn_fail">>, usrs)
    ELSE IF cognito = "other"
    THEN Throw("errors.AppError",
               loginCatch([cls |-> "Error", code |-> "", err |-> internal]).err,
               <<"authn_fail">>, usrs)
    ELSE IF cognito = "empty"
    THEN Throw("errors.UnauthorizedError", "Authentication failed", <<"authn_fail">>, usrs)
    ELSE IF userId \notin usrs
    THEN Throw("errors.NotFoundError", "User account not found in database",
               <<"authn_ok", "last_login">>, usrs)
    ELSE Result("", {userId}, <<"authn_ok", "last_login", "audit">>,
                <<AuditEntry(call, "sql", FALSE, 0)>>, usrs)

\* the exported resolver of auth-service, case 'login'
authHandler(hasInput, cognito, internal, userId, usrs, call) ==
    IF ~hasInput
    THEN Throw("errors.ValidationError", "Invalid login input", <<>>, usrs)
    ELSE login(cognito, internal, userId, usrs, call)

\* register of auth-service. input is the RegisterInput (role and userType
\* any strings, strongPassword what isValidPassword answers), signUp what
\* Cognito's SignUp does ("ok" or the code of the error), newId the UserSub
\* it returns, confirm what autoConfirmUser does ("skipped" outside stage
\* dev), cognito what the InitiateAuth of the login that follows does,
\* dbOk whether the insert into users succeeds, auditOk whether the insert
\* of logHipaaEvent succeeds. row is the row inserted into users, pool the
\* account SignUp created. Whatever is thrown after SignUp is answered as
\* REGISTRATION_ERROR; nothing is rolled back.
SignUpOutcomes == {"ok", "UsernameExistsException", "other"}
ConfirmOutcomes == {"skipped", "ok", "fail"}

register(input, signUp, newId, dbOk, confirm, cognito, auditOk, internal, usrs, call) ==
    IF ~input.consentGiven
    THEN [res |-> Throw("errors.ValidationError", "HIPAA consent is required for registration",
                        <<>>, usrs),
          row |-> NoAccount, pool |-> {}]
    ELSE IF ~input.strongPassword
    THEN [res |-> Throw("errors.ValidationError", "Password must be at least 12 characters",
                        <<>>, usrs),
          row |-> NoAccount, pool |-> {}]
    ELSE IF signUp = "UsernameExistsException"
    THEN [res |-> Throw("errors.ConflictError", "User with this email already exists",
                        <<>>, usrs),
          row |-> NoAccount, pool |-> {}]
    ELSE IF signUp # "ok"
    THEN [res |-> Throw("errors.AppError", registerFailed(internal), <<>>, usrs),
          row |-> NoAccount, pool |-> {}]
    ELSE LET row == [id |-> newId, role |-> input.role, user_type |-> input.userType]
             tbl == usrs \cup {newId}
             entry == AuditEntry(call, "sql", FALSE, 0)
             in == login(cognito, internal, newId, tbl, call)
         IN  IF ~dbOk
             THEN [res |-> Throw("errors.AppError", registerFailed(internal), <<>>, usrs),
                   row |-> NoAccount, pool |-> {newId}]
             ELSE IF ~auditOk
             THEN [res |-> Throw("errors.AppError", registerFailed(internal),
                                 <<"mutate", "audit_fail">>, tbl),
                   row |-> row, pool |-> {newId}]
             ELSE IF confirm = "fail"
             THEN [res |-> [Throw("errors.AppError", registerFailed(internal),
                                  <<"mutate", "audit">>, tbl) EXCEPT !.entries = <<entry>>],
                   row |-> row, pool |-> {newId}]
             ELSE IF in.kind = "throw"
             THEN [res |-> [in EXCEPT !.cls = "errors.AppError",
                                      !.err = registerCatch([cls |-> in.cls, code |-> "",
                                                             err |-> in.err]).err,
                                      !.trace = <<"mutate", "audit">> \o @,
                                      !.entries = <<entry>> \o @],
                   row |-> row, pool |-> {newId}]
             ELSE [res |-> [in EXCEPT !.trace = <<"mutate", "audit">> \o @,
                                      !.entries = <<entry>> \o @],
                   row |-> row, pool |-> {newId}]

\* the exported resolver of auth-service, case 'register'; hasInput is
\* args.input && isRegisterInput(args.input)
authHandlerRegister(hasInput, input, signUp, newId, dbOk, confirm, cognito, auditOk, internal, usrs, call) ==
    IF ~hasInput
    THEN [res |-> Throw("errors.ValidationError", "Invalid register input", <<>>, usrs),
          row |-> NoAccount, pool |-> {}]
    ELSE register(input, signUp, newId, dbOk, confirm, cognito, auditOk, internal, usrs, call)

\* ---------------------------------------------------- shared: utils/roles
UserTypes == {"CLIENT", "GUARDIAN", "SERVICE_PROVIDER", "SYSTEM"}

STAFF_ROLES == {"ADMIN", "PROVIDER", "NURSE", "RECEPTIONIST", "STAFF"}

isStaffRole(role) == role \in STAFF_ROLES

validateUserRoleAndType(role, userType) ==
    IF isStaffRole(role) /\ userType # "SERVICE_PROVIDER" THEN FALSE
    ELSE IF role = "PATIENT" /\ userType # "CLIENT" THEN FALSE
    ELSE IF role = "GUARDIAN" /\ userType # "GUARDIAN" THEN FALSE
    ELSE TRUE

\* ------------------------------------------------ shared: the middlewares
\* A pipeline event: token is the verified payload behind the header
\* event.request.headers.authorization (NoToken: no header, BadToken: a
\* token the verifier rejects), identity the claims of
\* event.requestContext.authorizer, body the parsed event.body (valid =
\* FALSE: not JSON; all arguments NoId: no body), authContext what an outer
\* middleware has put on the event.
NoToken == [sub |-> NoId, role |-> "<no token>"]
BadToken == [sub |-> NoId, role |-> "<invalid token>"]

\* shared: authenticate(token), the token being one the verifier accepts
authenticate(token) ==
    [sub |-> token.sub, role |-> IF token.role = NoRole THEN "patient" ELSE token.role]

\* handler.ts: the error classes withErrorHandler knows, with their status
\* and code; the classes of the errors module are other classes
HandlerAppErrors ==
    {"handler.AppError", "handler.ValidationError", "handler.UnauthorizedError",
     "handler.ForbiddenError", "handler.NotFoundError"}

StatusOf(cls) ==
    CASE cls \in {"handler.ValidationError", "errors.ValidationError"} -> 400
      [] cls \in {"handler.UnauthorizedError", "errors.UnauthorizedError"} -> 401
      [] cls \in {"handler.ForbiddenError", "errors.ForbiddenError"} -> 403
      [] cls \in {"handler.NotFoundError", "errors.NotFoundError"} -> 404
      [] cls = "errors.ConflictError" -> 409
      [] OTHER -> 500

CodeOf(cls) ==
    CASE cls \in {"handler.ValidationError", "errors.ValidationError"} -> "VALIDATION_ERROR"
      [] cls \in {"handler.UnauthorizedError", "errors.UnauthorizedError"} -> "UNAUTHORIZED"
      [] cls \in {"handler.ForbiddenError", "errors.ForbiddenError"} -> "FORBIDDEN"
      [] cls \in {"handler.NotFoundError", "errors.NotFoundError"} -> "NOT_FOUND"
      [] cls = "errors.ConflictError" -> "CONFLICT"
      [] OTHER -> ""

\* In each middleware r is the outcome of the handler it wraps, when the
\* middleware calls that handler.
\* withErrorHandler answering only the errors of its own classes and
\* throwing every other error again
withErrorHandlerRethrowing(r, call) ==
    IF r.kind = "throw" /\ r.cls \in HandlerAppErrors
    THEN [r EXCEPT !.kind = "response", !.status = StatusOf(r.cls), !.code = CodeOf(r.cls),
                   !.secure = FALSE]
    ELSE r

\* withErrorHandler: instanceof tests against the classes of handler.ts
withErrorHandler(r, call) ==
        IF r.kind # "throw" THEN r
        ELSE LET isApp == r.cls \in HandlerAppErrors
                 logged == r.cls \in {"handler.UnauthorizedError", "handler.ForbiddenError"}
             IN  [r EXCEPT
                    !.kind = "response",
                    !.status = IF isApp THEN StatusOf(r.cls) ELSE 500,
                    !.code = IF isApp THEN CodeOf(r.cls) ELSE "INTERNAL_SERVER_ERROR",
                    !.err = IF isApp THEN @ ELSE "An unexpected error occurred",
                    !.secure = FALSE,
                    !.entries = IF logged
                                THEN @ \o <<AuditEntry(call, "dynamo", FALSE, StatusOf(r.cls))>>
                                ELSE @,
                    !.trace = IF logged THEN @ \o <<"audit">> ELSE @]

withSecurityHeaders(r) ==
    IF r.kind = "response" THEN [r EXCEPT !.secure = TRUE] ELSE r

\* lambda: withAuth of patient-service; the wrapped handler is called with
\* the event carrying authContext = authenticate(token)
withAuth(r, event, tbl) ==
    IF event.token = NoToken
    THEN Throw("errors.UnauthorizedError", "No authentication token provided",
               <<"authn_fail">>, tbl)
    ELSE IF event.token = BadToken
    THEN Throw("Error", "Invalid or expired token", <<"authn_fail">>, tbl)
    ELSE After("authn_ok", r)

\* withAuditLog: the finally block runs when the wrapped handler has
\* returned or thrown; it parses event.body again, and a body that is not
\* JSON makes the block throw before the entry is written
withAuditLog(phiAccessed, r, event, call) ==
        IF r.kind = "pending" THEN r
        ELSE IF ~event.body.valid
        THEN [r EXCEPT !.kind = "throw", !.cls = "SyntaxError", !.err = "Unexpected token",
                       !.data = {}]
        ELSE [r EXCEPT
                !.entries = @ \o <<AuditEntry(call, "dynamo", phiAccessed,
                                    IF r.kind = "throw" THEN 500
                                    ELSE IF r.status = 0 THEN 200 ELSE r.status)>>,
                !.trace = @ \o <<"audit">>]

\* validation.ts: patientSchema is a plain object of three Joi schemas; it
\* has no validate method of its own
patientSchema == [hasValidate |-> FALSE, accepts |-> {}]

\* validateRequest: JSON.parse of the body, schema.validate, then the
\* handler; anything thrown that is not a ValidationError becomes one
validateRequest(schema, r, event, tbl) ==
    IF ~event.body.valid \/ ~schema.hasValidate
    THEN Throw("handler.ValidationError", "Invalid request body", <<>>, tbl)
    ELSE IF event.body \notin schema.accepts
    THEN Throw("handler.ValidationError", "Validation failed", <<>>, tbl)
    ELSE IF r.kind = "throw" /\ r.cls # "handler.ValidationError"
    THEN [r EXCEPT !.cls = "handler.ValidationError", !.err = "Invalid request body"]
    ELSE r

\* appSyncToLambda: the resolver is called with a callback it never calls,
\* and the promise it returns is dropped; the promise handed to the caller
\* settles only through the callback
appSyncToLambda(r, event, tbl) ==
    IF ~event.body.valid
    THEN Throw("SyntaxError", "Unexpected token", <<>>, tbl)
    ELSE [r EXCEPT !.kind = "pending"]

\* lambda: adaptedHandler = appSyncToLambda(convertToAppSyncHandler(baseHandler))
adaptedHandler(event, first, freshId, pats) ==
    LET ctx == convertToAppSyncHandler(event.identity)
    IN  appSyncToLambda(
            [baseHandler(event.fieldName, event.body.id, event.body.input, event.body.query,
                         ctx, first, freshId, pats) EXCEPT !.ctx = ctx],
            event, pats)

\* lambda: handler = withMiddleware(adaptedHandler), withMiddleware =
\* compose(withErrorHandler, withSecurityHeaders, withAuth,
\*         withAuditLog({resourceType: 'PATIENT', phiAccessed: true}),
\*         validateRequest(patientSchema))
handler(event, first, freshId, pats, call) ==
    LET authed == [event EXCEPT !.authContext = authenticate(event.token)]
    IN  withErrorHandler(
            withSecurityHeaders(
                withAuth(
                    withAuditLog(TRUE,
                        validateRequest(patientSchema,
                            adaptedHandler(authed, first, freshId, pats),
                            authed, pats),
                        authed, call),
                    event, pats)),
            call)

\* ----------------------------------------------------- shared: encryption
\* Buffer.from(text, 'utf8'): the bytes of a string, one token per encoded
\* character. "HI" and "LO" are the two halves of a surrogate pair; a pair
\* is one character of four bytes ("U+1F600"), a half without its partner
\* is encoded as the replacement character ("U+FFFD").
RECURSIVE utf8Encode(_)
utf8Encode(text) ==
    IF text = <<>> THEN <<>>
    ELSE IF Head(text) = "HI" /\ Len(text) >= 2 /\ text[2] = "LO"
    THEN <<"U+1F600">> \o utf8Encode(SubSeq(text, 3, Len(text)))
    ELSE IF Head(text) \in {"HI", "LO"}
    THEN <<"U+FFFD">> \o utf8Encode(Tail(text))
    ELSE <<Head(text)>> \o utf8Encode(Tail(text))

\* buffer.toString('utf8')
RECURSIVE utf8Decode(_)
utf8Decode(bytes) ==
    IF bytes = <<>> THEN <<>>
    ELSE IF Head(bytes) = "U+1F600"
    THEN <<"HI", "LO">> \o utf8Decode(Tail(bytes))
    ELSE <<Head(bytes)>> \o utf8Decode(Tail(bytes))

\* KMS Encrypt / Decrypt under config.kms.keyId: the CiphertextBlob of a
\* plaintext is an opaque blob only KMS opens; nonce is the random value
\* KMS draws for the request
kmsEncrypt(bytes, nonce) == <<"kms-blob", nonce>> \o bytes

kmsAccepts(blob) == Len(blob) >= 2 /\ Head(blob) = "kms-blob"

kmsDecrypt(blob) == SubSeq(blob, 3, Len(blob))

\* buffer.toString('base64') and Buffer.from(text, 'base64')
toBase64(bytes) == <<"base64">> \o bytes

fromBase64(text) == IF text # <<>> /\ Head(text) = "base64" THEN Tail(text) ELSE <<>>

\* EncryptionService.encryptWithKMS: the base64 text of the blob
encryptWithKMS(plaintext, nonce) == toBase64(kmsEncrypt(utf8Encode(plaintext), nonce))

\* EncryptionService.decryptWithKMS: ok = FALSE when KMS rejects the blob
\* and the call throws
decryptWithKMS(ciphertext) ==
    LET blob == fromBase64(ciphertext)
    IN  IF kmsAccepts(blob)
        THEN [ok |-> TRUE, text |-> utf8Decode(kmsDecrypt(blob))]
        ELSE [ok |-> FALSE, text |-> <<>>]

\* buffer.toString('hex') writes lower-case digits; Buffer.from(text, 'hex')
\* reads digits of either case. A hex text is the buffer it stands for and
\* the case of its digits.
toHex(buf) == [hex |-> buf, upper |-> FALSE]

fromHex(text) == text.hex

\* aes-256-gcm. The ciphertext of bytes under (key, iv) opens to those
\* bytes under the same key and iv and to other bytes under any other; the
\* tag is a MAC over iv and ciphertext under the key, getAuthTag returns its
\* 16 bytes.
gcmTagLength == 16

gcmEncrypt(key, iv, bytes) == [key |-> key, iv |-> iv, bytes |-> bytes]

gcmDecrypt(key, iv, ct) ==
    IF ct.key = key /\ ct.iv = iv THEN ct.bytes ELSE <<"<garbage>">>

gcmTag(key, iv, ct) == [key |-> key, iv |-> iv, ct |-> ct, len |-> gcmTagLength]

\* setAuthTag of a decipher created without authTagLength takes a tag of
\* any of these lengths, and final() compares that many bytes
ValidTagLengths == {4, 8, 12, 13, 14, 15, 16}

gcmVerify(key, iv, ct, tag) == tag.key = key /\ tag.iv = iv /\ tag.ct = ct

\* encryptPHI with a constant in place of the iv drawn for the call
encryptPHIFixedIv(data, key, iv) ==
    <<toHex("iv1"),
      toHex(gcmTag(key, "iv1", gcmEncrypt(key, "iv1", utf8Encode(data)))),
      toHex(gcmEncrypt(key, "iv1", utf8Encode(data)))>>

\* EncryptionService.encryptPHI; iv is what crypto.randomBytes(16) returns.
\* The packed string `iv:authTag:encrypted` is the sequence of its parts.
encryptPHI(data, key, iv) ==
    LET encrypted == gcmEncrypt(key, iv, utf8Encode(data))
        authTag == gcmTag(key, iv, encrypted)
    IN  <<toHex(iv), toHex(authTag), toHex(encrypted)>>

\* decryptPHI with the output read as 'latin1' instead of 'utf8': every
\* byte becomes a character of its own
decryptPHIAsLatin1(encryptedData, key) ==
    IF Len(encryptedData) < 3 \/ fromHex(encryptedData[2]).len \notin ValidTagLengths
       \/ ~gcmVerify(key, fromHex(encryptedData[1]), fromHex(encryptedData[3]),
                     fromHex(encryptedData[2]))
    THEN [ok |-> FALSE, text |-> NoText, cls |-> "Error"]
    ELSE [ok |-> TRUE,
          text |-> gcmDecrypt(key, fromHex(encryptedData[1]), fromHex(encryptedData[3])),
          cls |-> ""]

\* EncryptionService.decryptPHI: split(':') and the first three parts; ok =
\* FALSE when the call throws, cls the class of what is thrown
decryptPHI(encryptedData, key) ==
    IF Len(encryptedData) < 2
    THEN [ok |-> FALSE, text |-> NoText, cls |-> "TypeError"]
    ELSE LET iv == fromHex(encryptedData[1])
             authTag == fromHex(encryptedData[2])
         IN  IF authTag.len \notin ValidTagLengths
             THEN [ok |-> FALSE, text |-> NoText, cls |-> "TypeError"]
             ELSE IF Len(encryptedData) < 3
             THEN [ok |-> FALSE, text |-> NoText, cls |-> "TypeError"]
             ELSE LET encrypted == fromHex(encryptedData[3])
                  IN  IF ~gcmVerify(key, iv, encrypted, authTag)
                      THEN [ok |-> FALSE, text |-> NoText, cls |-> "Error"]
                      ELSE [ok |-> TRUE, text |-> utf8Decode(gcmDecrypt(key, iv, encrypted)),
                            cls |-> ""]

\* ------------------------------------------------------ shared: redaction
\* A string is the sequence of its characters (UTF-16 code units), each
\* written as a token. A JSON value is a node [leaf, kids]: a string has
\* its text in leaf and no kids, an object has leaf = <<>> and its members
\* in kids (key -> node);
\* an array is the object of its indices "0", "1", ..., which is how
\* Object.entries and property access see it.
NoKids == [k \in {} |-> ""]

Leaf(text) == [leaf |-> text, kids |-> NoKids]

Obj(members) == [leaf |-> <<>>, kids |-> members]

NoSnapshot == Leaf(<<>>)

REDACTED == Leaf(<<"***REDACTED***">>)

\* key.toLowerCase() of the keys used
ToLowerCase(key) ==
    CASE key = "Password" -> "password"
      [] key = "creditCard" -> "creditcard"
      [] OTHER -> key

\* auditLog.ts: sanitizeBody; sanitized[field] is looked up with the exact
\* name, on the top level only, and replaced when truthy
sanitizeBodyFields ==
    {"password", "token", "refreshToken", "ssn", "creditCard", "bankAccount", "secret", "apiKey"}

sanitizeBody(body) ==
    IF body.kids = NoKids THEN body
    ELSE Obj([k \in DOMAIN body.kids |->
                 IF k \in sanitizeBodyFields /\ body.kids[k] # Leaf(<<>>)
                 THEN REDACTED ELSE body.kids[k]])

\* utils/middleware.ts: sanitizeSensitiveData; the lower-cased key is looked
\* up in the list as written
sanitizeSensitiveDataFields ==
    {"password", "ssn", "creditCard", "token", "secret", "authorization"}

RECURSIVE sanitizeSensitiveData(_)
sanitizeSensitiveData(data) ==
    IF data.kids = NoKids THEN data
    ELSE Obj([k \in DOMAIN data.kids |->
                 IF ToLowerCase(k) \in sanitizeSensitiveDataFields THEN REDACTED
                 ELSE sanitizeSensitiveData(data.kids[k])])

\* patient functions: decryptSensitiveData replaces demographics.ssn of a
\* stored patient row by its plaintext
decryptSensitiveData(patient) ==
    IF /\ "demographics" \in DOMAIN patient.kids
       /\ "ssn" \in DOMAIN patient.kids["demographics"].kids
       /\ patient.kids["demographics"].kids["ssn"] # Leaf(<<>>)
    THEN Obj([patient.kids EXCEPT
                !["demographics"] =
                    Obj([@.kids EXCEPT !["ssn"] = Leaf(decryptWithKMS(@.leaf).text)])])
    ELSE patient

\* ------------------------------------------------- audit store failures
\* The outcome of a call whose audit write fails. logHipaaEvent awaits
\* db.insert('audit_logs', ...) without a catch: the error leaves the
\* resolver at that statement, after everything the call did before it.
\* createAuditLog catches the error of dynamoDB.put and only logs it.
PrefixBefore(trace, ev) ==
    SubSeq(trace, 1, (CHOOSE i \in 1..(Len(trace) + 1) :
                        /\ i = Len(trace) + 1 \/ trace[i] = ev
                        /\ \A j \in 1..(i - 1) : trace[j] # ev) - 1)

auditWriteFails(res) ==
    IF res.entries = <<>> THEN res
    ELSE IF res.entries[1].store = "sql"
    THEN [res EXCEPT !.kind = "throw", !.cls = "Error", !.err = "audit_logs insert failed",
                     !.data = {}, !.entries = <<>>,
                     !.trace = PrefixBefore(@, "audit") \o <<"audit_fail">>]
    ELSE [res EXCEPT !.entries = <<>>,
                     !.trace = [i \in DOMAIN @ |-> IF @[i] = "audit" THEN "audit_fail" ELSE @[i]]]

\* ------------------------------------------------------------ the calls
\* token is the verified payload of the bearer token of a pipeline call,
\* identity the Cognito identity of the event
LastCall(svc, op, token, identity, id, existed, res) ==
    [svc |-> svc, op |-> op, token |-> token, identity |-> identity, id |-> id,
     existed |-> existed, kind |-> res.kind, status |-> res.status, cls |-> res.cls,
     err |-> res.err, data |-> res.data, trace |-> res.trace, entries |-> res.entries,
     code |-> res.code, secure |-> res.secure, ctx |-> res.ctx]

Count(trace, ev) == Cardinality({i \in DOMAIN trace : trace[i] = ev})

\* the (fieldName, arguments) pairs of the calls made; an argument that is
\* NoId is absent from the call
NoInput == [patientId |-> NoId, providerId |-> NoId, content |-> NoId]

MedicalRecordRequests ==
    [fieldName : {"getMedicalRecord", "deleteMedicalRecord"},
     id : RecordIds \cup {NoId}, input : {NoInput}]
    \cup [fieldName : {"listMedicalRecords"}, id : {NoId},
          input : [patientId : PatientIds \cup {NoId}, providerId : {NoId}, content : {NoId}]]
    \cup [fieldName : {"createMedicalRecord"}, id : {NoId}, input : MedicalRecordInputs]
    \cup [fieldName : {"updateMedicalRecord"}, id : RecordIds,
          input : [patientId : {NoId}, providerId : {NoId}, content : {"c2"}]]

Fresh(tbl) == IF FreshIds(tbl) = {} THEN {NoId} ELSE FreshIds(tbl)

MedicalRecordCall ==
    /\ \E req \in MedicalRecordRequests, identity \in Identities,
          freshId \in Fresh(medical_records), auditOk \in BOOLEAN :
        LET done == medicalRecordHandler(req.fieldName, req.id, req.input, freshId, identity,
                                         medical_records, patients, callNo + 1)
            res == IF auditOk THEN done ELSE auditWriteFails(done)
        IN  /\ req.fieldName = "createMedicalRecord" => freshId # NoId
            /\ ~auditOk => done.entries # <<>>
            /\ medical_records' = res.tbl
            /\ audit' = audit \o res.entries
            /\ accessLog' = accessLog + Count(res.trace, "accesslog")
            /\ callNo' = callNo + 1
            /\ last' = LastCall("medical-record", req.fieldName, NoIdentity, identity, req.id,
                                req.id # NoId /\ medical_records[req.id].exists, res)
            /\ UNCHANGED <<patients, appointments, users>>
            /\ UNCHANGED utilVars

AppointmentCall ==
    /\ \E req \in AppointmentRequests, identity \in Identities,
          freshId \in Fresh(appointments), auditOk \in BOOLEAN :
        LET done == appointmentHandler(req.fieldName, req.id, req.input, freshId, identity,
                                       appointments, patients, callNo + 1)
            res == IF auditOk THEN done ELSE auditWriteFails(done)
        IN  /\ req.fieldName = "createAppointment" => freshId # NoId
            /\ ~auditOk => done.entries # <<>>
            /\ appointments' = res.tbl
            /\ audit' = audit \o res.entries
            /\ callNo' = callNo + 1
            /\ last' = LastCall("appointment", req.fieldName, NoIdentity, identity, req.id,
                                req.id # NoId /\ appointments[req.id].exists, res)
            /\ UNCHANGED <<patients, medical_records, users, accessLog>>
            /\ UNCHANGED utilVars

PatientArgIds == {"p1", "p3", "u1", NoId}

PatientBodies ==
    [valid : {TRUE}, fieldName : {"getPatient", "deletePatient"}, id : PatientArgIds,
     input : {NoPatientInput}, query : {NoId}]
    \cup [valid : {TRUE}, fieldName : {"updatePatient"}, id : PatientArgIds \ {NoId},
          input : {NoPatientInput, [userId |-> NoId, preferredLanguage |-> "es"]},
          query : {NoId}]
    \cup [valid : {TRUE}, fieldName : {"createPatient"}, id : {NoId},
          input : {NoPatientInput, [userId |-> "u1", preferredLanguage |-> NoId]},
          query : {NoId}]
    \cup [valid : {TRUE}, fieldName : {"listPatients", "unknown"}, id : {NoId},
          input : {NoPatientInput}, query : {NoId}]
    \cup [valid : {TRUE}, fieldName : {"searchPatients"}, id : {NoId},
          input : {NoPatientInput}, query : {NoId, "q"}]
    \cup [valid : {FALSE}, fieldName : {"getPatient"}, id : {NoId},
          input : {NoPatientInput}, query : {NoId}]

PipelineBodies ==
    {b \in PatientBodies :
        /\ b.id \in {"p1", NoId}
        /\ b.fieldName \in {"getPatient", "updatePatient", "listPatients", "deletePatient"}
        /\ (b.fieldName = "updatePatient" => b.input # NoPatientInput)}

\* the row a query by user_id returns first
FirstRows(pats, ctx) ==
    IF ctx.role = "PATIENT" /\ PatientRowsOfUser(pats, ctx.sub) # {}
    THEN PatientRowsOfUser(pats, ctx.sub) ELSE {NoId}

PatientEvent(token, identity, body, authContext) ==
    [token |-> token, identity |-> identity, body |-> body, fieldName |-> body.fieldName,
     authContext |-> authContext]

\* the handler the pipeline of patient-service wraps, applied to an event
\* on which an outer middleware may have put an actor context
AdaptedHandlerCall ==
    /\ \E body \in PatientBodies, identity \in Identities,
          authContext \in {authenticate([sub |-> "u1", role |-> "ADMIN"])},
          freshId \in Fresh(patients) :
        \E first \in FirstRows(patients, convertToAppSyncHandler(identity)) :
        LET event == PatientEvent(NoToken, identity, body, authContext)
            res == adaptedHandler(event, first, freshId, patients)
        IN  /\ body.fieldName = "createPatient" => freshId # NoId
            /\ patients' = res.tbl
            /\ audit' = audit \o res.entries
            /\ callNo' = callNo + 1
            /\ last' = LastCall("patient-adapted", body.fieldName, authContext, identity,
                                body.id, body.id \in PatientIds /\ patients[body.id].exists, res)
            /\ UNCHANGED <<medical_records, appointments, users, accessLog>>
            /\ UNCHANGED utilVars

\* the exported handler of patient-service
PatientHandlerCall ==
    /\ \E body \in PipelineBodies, identity \in {[sub |-> "u1", role |-> "PATIENT"]},
          token \in (Identities \ {NoIdentity}) \cup {NoToken, BadToken},
          freshId \in Fresh(patients), auditOk \in BOOLEAN :
        \E first \in FirstRows(patients, convertToAppSyncHandler(identity)) :
        LET event == PatientEvent(token, identity, body, NoIdentity)
            done == handler(event, first, freshId, patients, callNo + 1)
            res == IF auditOk THEN done ELSE auditWriteFails(done)
        IN  /\ body.fieldName = "createPatient" => freshId # NoId
            /\ ~auditOk => done.entries # <<>>
            /\ patients' = res.tbl
            /\ audit' = audit \o res.entries
            /\ callNo' = callNo + 1
            /\ last' = LastCall("patient", body.fieldName, token, identity,
                                body.id, body.id \in PatientIds /\ patients[body.id].exists, res)
            /\ UNCHANGED <<medical_records, appointments, users, accessLog>>
            /\ UNCHANGED utilVars

LoginCall ==
    /\ \E hasInput \in BOOLEAN, cognito \in CognitoOutcomes, userId \in Subs \cup {"u3"},
          internal \in InternalMessages :
        LET res == authHandler(hasInput, cognito, internal, userId, users, callNo + 1)
        IN  /\ users' = res.tbl
            /\ audit' = audit \o res.entries
            /\ callNo' = callNo + 1
            /\ last' = LastCall("auth", "login", NoIdentity, [sub |-> userId, role |-> NoRole],
                                NoId, FALSE, res)
            /\ UNCHANGED <<patients, medical_records, appointments, accessLog>>
            /\ UNCHANGED utilVars

\* table patients with two patients registered
SeedPatients ==
    [p \in PatientIds |->
        IF p = "p1" THEN [exists |-> TRUE, user_id |-> "u1", is_active |-> TRUE, mrn |-> 1, lang |-> "en"]
        ELSE IF p = "p2" THEN [exists |-> TRUE, user_id |-> "u2", is_active |-> TRUE, mrn |-> 2, lang |-> "en"]
        ELSE [exists |-> FALSE, user_id |-> NoId, is_active |-> FALSE, mrn |-> 0, lang |-> "en"]]

InitServices ==
    /\ patients = SeedPatients
    /\ medical_records = [r \in RecordIds |->
                     IF r = "r1" THEN [exists |-> TRUE, patient_id |-> "p1", provider_id |-> "u2",
                                       is_active |-> TRUE, content |-> "c1"]
                     ELSE [exists |-> FALSE, patient_id |-> NoId, provider_id |-> NoId,
                           is_active |-> FALSE, content |-> "c1"]]
    /\ appointments = [a \in AppointmentIds |->
                     IF a = "a1" THEN [exists |-> TRUE, patient_id |-> "p1", provider_id |-> "u2",
                                       appointment_date |-> "d1", status |-> "SCHEDULED"]
                     ELSE [exists |-> FALSE, patient_id |-> NoId, provider_id |-> NoId,
                           appointment_date |-> NoId, status |-> NoId]]
    /\ users = Subs
    /\ audit = <<>>
    /\ accessLog = 0
    /\ callNo = 0
    /\ last = LastCall("", "", NoIdentity, NoIdentity, NoId, FALSE,
                       [Result("", {}, <<>>, <<>>, <<>>) EXCEPT !.kind = "none"])

IdleRedact == snapshot = NoSnapshot /\ redacted = [by |-> "", value |-> NoSnapshot]

Init ==
    /\ InitServices
    /\ IdleRedact
    /\ IdleRegister
    /\ IdleCrypto
    /\ IdleMore

\* one call of any service
Next ==
    \/ callNo < MaxCallsAll /\ MedicalRecordCall
    \/ callNo < MaxCallsAll /\ AppointmentCall
    \/ callNo < MaxCallsAll /\ AdaptedHandlerCall
    \/ callNo < MaxCallsAll /\ PatientHandlerCall
    \/ callNo < MaxCallsAll /\ LoginCall

Spec == Init /\ [][Next]_vars

\* calls of one service only
NextMedicalRecord == callNo < MaxCalls /\ MedicalRecordCall

SpecMedicalRecord == Init /\ [][NextMedicalRecord]_vars

NextAppointment == callNo < MaxCalls /\ AppointmentCall

SpecAppointment == Init /\ [][NextAppointment]_vars

NextPatient ==
    \/ callNo < MaxCalls /\ AdaptedHandlerCall
    \/ callNo < MaxCalls /\ PatientHandlerCall

SpecPatient == Init /\ [][NextPatient]_vars

\* ------------------------------------------------------------ properties
\* the actor of the last call: the verified token of a pipeline call, else
\* the Cognito identity of the event
Actor == IF last.svc = "patient" THEN authenticate(last.token) ELSE last.identity

\* the user who owns resource x of the service of the last call
OwnerOf(x) ==
    IF last.svc = "medical-record" THEN patient_user_id(patients, medical_records[x].patient_id)
    ELSE IF last.svc = "appointment" THEN patient_user_id(patients, appointments[x].patient_id)
    ELSE patient_user_id(patients, x)

Before(trace, first, second) ==
    \A i \in DOMAIN trace : trace[i] \in second => \E j \in 1..(i - 1) : trace[j] \in first

Has(trace, evs) == \E i \in DOMAIN trace : trace[i] \in evs

\* C1: default deny. A read (getMedicalRecord, listMedicalRecords,
\* getAppointment, listAppointments, getPatient, listPatients,
\* searchPatients) by an actor whose role is GUARDIAN, RECEPTIONIST, STAFF
\* or absent returns no resource the actor does not own.
C1_DefaultDeny ==
    (/\ last.svc \in {"medical-record", "appointment", "patient-adapted"}
     /\ last.op \in {"getMedicalRecord", "listMedicalRecords", "getAppointment",
                     "listAppointments", "getPatient", "listPatients", "searchPatients"}
     /\ last.identity.role \in {"GUARDIAN", "RECEPTIONIST", "STAFF", NoRole})
    => \A x \in last.data : OwnerOf(x) = last.identity.sub

\* C2: a PATIENT actor's getPatient and updatePatient (with an update
\* input) of the patient record the actor owns succeed and return that
\* record.
C2_OwnerReadsAndUpdates ==
    (/\ last.svc \in {"patient", "patient-adapted"}
     /\ last.op \in {"getPatient", "updatePatient"}
     /\ Actor.role = "PATIENT"
     /\ last.id \in PatientIds
     /\ last.existed
     /\ patients[last.id].user_id = Actor.sub
     /\ last.err # "Update input is required")
    => (last.err = "" /\ last.data = {last.id})

\* C3: a call of deletePatient or deleteMedicalRecord by an actor whose
\* role is not ADMIN fails, performs no mutation and leaves the tables
\* patients and medical_records as they were.
C3_DestructiveOnlyAdmin ==
    [][(/\ last'.op \in {"deletePatient", "deleteMedicalRecord"}
        /\ Actor'.role # "ADMIN")
       => (/\ last'.err # ""
           /\ ~Has(last'.trace, {"mutate"})
           /\ patients' = patients
           /\ medical_records' = medical_records)]_vars

\* C3 witness: the patient who owns record r1 called deleteMedicalRecord
\* on it and was denied; the record is still active.
C3_OwnerDeleteDenied ==
    /\ last.svc = "medical-record"
    /\ last.op = "deleteMedicalRecord"
    /\ last.identity = [sub |-> "u1", role |-> "PATIENT"]
    /\ last.id = "r1"
    /\ OwnerOf("r1") = "u1"
    /\ Has(last.trace, {"deny"})
    /\ medical_records["r1"].is_active

\* C4: in every call, each mutation is preceded by an authorization
\* decision of that call that allowed it.
C4_AllowBeforeMutate == Before(last.trace, {"allow"}, {"mutate"})

\* C5: in every call, no row is fetched and nothing is decrypted before an
\* authorization decision of that call has allowed the access.
C5_AllowBeforeFetch == Before(last.trace, {"allow"}, {"fetch", "decrypt"})

\* C6: when getMedicalRecord, updateMedicalRecord or getAppointment denies
\* an actor access to an existing resource, the same call made with that
\* resource absent ends with the same error class and message.
C6_NoExistenceOracle ==
    (/\ last.op \in {"getMedicalRecord", "updateMedicalRecord", "getAppointment"}
     /\ last.existed
     /\ Has(last.trace, {"deny"}))
    => LET other ==
               IF last.svc = "medical-record"
               THEN medicalRecordHandler(last.op, last.id, [NoInput EXCEPT !.content = "c2"],
                        NoId, last.identity,
                        [medical_records EXCEPT ![last.id].exists = FALSE], patients, callNo)
               ELSE appointmentHandler(last.op, last.id, NoApptInput, NoId, last.identity,
                        [appointments EXCEPT ![last.id].exists = FALSE], patients, callNo)
       IN  other.err = last.err /\ other.cls = last.cls

C8_GuardianReadsWard ==
    (/\ last.svc \in {"patient", "patient-adapted"}
     /\ last.op = "getPatient"
     /\ Actor.role = "GUARDIAN"
     /\ last.id \in PatientIds
     /\ last.existed
     /\ <<Actor.sub, last.id>> \in patient_guardians)
    => (last.err = "" /\ last.data = {last.id})

\* C9: with the audit store working, a call of an exported handler that
\* failed authentication (missing or invalid token, failed login) or was
\* denied access wrote exactly one
\* audit entry with a failure outcome (status 400 or above).
C9_OneFailureEntry ==
    (/\ last.svc \in {"patient", "medical-record", "appointment", "auth"}
     /\ Has(last.trace, {"authn_fail", "deny"})
     /\ ~Has(last.trace, {"audit_fail"}))
    => Cardinality({i \in DOMAIN last.entries : last.entries[i].statusCode >= 400}) = 1

\* C10: with the audit store working, a successful PHI read through an
\* exported handler wrote exactly one
\* audit entry with phiAccessed = true and no failure status.
C10_OnePhiEntryPerRead ==
    (/\ last.svc \in {"patient", "medical-record", "appointment"}
     /\ last.op \in {"getPatient", "listPatients", "searchPatients", "getMedicalRecord",
                     "listMedicalRecords", "getAppointment", "listAppointments"}
     /\ last.err = ""
     /\ ~Has(last.trace, {"audit_fail"}))
    => Cardinality({i \in DOMAIN last.entries :
                      last.entries[i].phi /\ last.entries[i].statusCode < 400}) = 1

\* C11: with the audit store working, a call of a mutating operation (create, update, delete, cancel,
\* confirm) through an exported handler, made with an identity, wrote
\* exactly one audit entry,
\* whether the operation succeeded or failed.
C11_OneEntryPerMutation ==
    (/\ last.svc \in {"patient", "medical-record", "appointment"}
     /\ last.identity # NoIdentity
     /\ ~Has(last.trace, {"audit_fail"})
     /\ last.op \in {"createMedicalRecord", "updateMedicalRecord", "deleteMedicalRecord",
                     "createAppointment", "updateAppointment", "cancelAppointment",
                     "confirmAppointment", "createPatient", "updatePatient", "deletePatient"})
    => Len(last.entries) = 1

\* C12: a call of the patient pipeline that entered withAuditLog (its
\* token was accepted by withAuth) completed its audit entry: unless the
\* audit store failed, exactly one entry was written to the audit table
\* for the call.
C12_AuditCompleted ==
    (last.svc = "patient" /\ Has(last.trace, {"authn_ok"}) /\ ~Has(last.trace, {"audit_fail"}))
    => /\ Has(last.trace, {"audit"})
       /\ Cardinality({i \in DOMAIN last.entries : last.entries[i].store = "dynamo"}) = 1

\* C13: when the audit write of a call fails, the outcome returned to the
\* caller and the tables are what the same call yields when the audit
\* write succeeds (getMedicalRecord, deleteMedicalRecord, getAppointment,
\* cancelAppointment, confirmAppointment: calls fixed by operation, id and
\* identity).
C13_AuditFailureIsolated ==
    [][(/\ Has(last'.trace, {"audit_fail"})
        /\ last'.op \in {"getMedicalRecord", "deleteMedicalRecord", "getAppointment",
                          "cancelAppointment", "confirmAppointment"})
       => LET ok == IF last'.svc = "medical-record"
                    THEN medicalRecordHandler(last'.op, last'.id, NoInput, NoId, last'.identity,
                                              medical_records, patients, callNo + 1)
                    ELSE appointmentHandler(last'.op, last'.id, NoApptInput, NoId,
                                            last'.identity, appointments, patients, callNo + 1)
          IN  /\ last'.err = ok.err
              /\ last'.data = ok.data
              /\ medical_records' = (IF last'.svc = "medical-record" THEN ok.tbl
                                      ELSE medical_records)
              /\ appointments' = (IF last'.svc = "appointment" THEN ok.tbl
                                   ELSE appointments)]_vars

\* ---------------------------------------------------- redaction of bodies
\* members of a generated object
MaxMembers == 2

SnapshotKeys == {"password", "Password", "creditCard", "authorization", "name", "user"}

SnapshotTexts == {<<"x">>, <<"J", "a", "n", "e">>}

\* objects of up to MaxMembers members with string values
FlatSnapshots ==
    {Obj([k \in K |-> Leaf(f[k])]) :
        K \in {S \in SUBSET SnapshotKeys : Cardinality(S) \in 1..MaxMembers},
        f \in [SnapshotKeys -> SnapshotTexts]}

\* rows of table patients, the SSN stored as encryptWithKMS made it
StoredPatients ==
    {Obj([k \in {"id", "demographics"} |->
            IF k = "id" THEN Leaf(<<"p1">>)
            ELSE Obj([j \in {"ssn"} |-> Leaf(encryptWithKMS(ssn, "n1"))])]) :
        ssn \in SnapshotTexts}

\* the body of a getPatient response
PatientResponses == {decryptSensitiveData(row) : row \in StoredPatients}

\* strings, flat objects, a flat object inside an object ("user") or
\* inside an array ("0"), and patient responses
Snapshots ==
    {Leaf(t) : t \in SnapshotTexts}
    \cup FlatSnapshots
    \cup {Obj([k \in {outer} |-> o]) : outer \in {"user", "0"}, o \in FlatSnapshots}
    \cup PatientResponses

InitRedact ==
    /\ InitServices
    /\ snapshot \in Snapshots
    /\ redacted = [by |-> "", value |-> NoSnapshot]
    /\ IdleRegister
    /\ IdleCrypto
    /\ IdleMore

\* withAuditLog: requestBody / responseBody of the audit entry
SanitizeBodyCall ==
    /\ redacted.by = ""
    /\ redacted' = [by |-> "sanitizeBody", value |-> sanitizeBody(snapshot)]
    /\ UNCHANGED <<serviceVars, snapshot, registerVars, cryptoVars, moreVars>>

SanitizeSensitiveDataCall ==
    /\ redacted.by = ""
    /\ redacted' = [by |-> "sanitizeSensitiveData", value |-> sanitizeSensitiveData(snapshot)]
    /\ UNCHANGED <<serviceVars, snapshot, registerVars, cryptoVars, moreVars>>

NextRedact == SanitizeBodyCall \/ SanitizeSensitiveDataCall

SpecRedact == InitRedact /\ [][NextRedact]_vars

Denylist ==
    {"password", "token", "refreshtoken", "ssn", "secret", "apikey", "creditcard",
     "bankaccount", "authorization"}

\* no member of node, at any depth, has a denylisted key and a value other
\* than the marker
RECURSIVE FullyRedacted(_)
FullyRedacted(node) ==
    \A k \in DOMAIN node.kids :
        IF ToLowerCase(k) \in Denylist THEN node.kids[k] = REDACTED
        ELSE FullyRedacted(node.kids[k])

\* C14: the snapshot a sanitizer hands on for persisting has the marker
\* '***REDACTED***' in place of every value whose key is on the denylist,
\* in any letter case and at any depth of objects and arrays.
C14_Redaction == redacted.by # "" => FullyRedacted(redacted.value)

\* the texts of the strings in node, at any depth
RECURSIVE Texts(_)
Texts(node) ==
    IF node.kids = NoKids THEN {node.leaf}
    ELSE UNION {Texts(node.kids[k]) : k \in DOMAIN node.kids}

\* C15: when the body of a getPatient response, with the SSN decrypted by
\* decryptSensitiveData, is sanitized for the audit entry, the decrypted
\* SSN does not appear in the snapshot handed to the audit store.
C15_PlaintextStaysOut ==
    (redacted.by = "sanitizeBody" /\ snapshot \in PatientResponses)
    => snapshot.kids["demographics"].kids["ssn"].leaf \notin Texts(redacted.value)

\* C16: a call of the patient pipeline whose credential is absent, is
\* rejected by the verifier, or is verified but carries no role claim,
\* fails authentication: withAuth produces no actor context for it.
C16_NoDefaultIdentity ==
    (/\ last.svc = "patient"
     /\ (last.token \in {NoToken, BadToken} \/ last.token.role = NoRole))
    => (Has(last.trace, {"authn_fail"}) /\ ~Has(last.trace, {"authn_ok"}))

\* C17: a call of the patient pipeline, which withErrorHandler wraps, that
\* fails authentication is answered with status 401, and one that is denied
\* authorization with status 403 and the fixed message; neither is answered
\* with 500 or any other status.
C17_GenericAuthResponses ==
    last.svc = "patient"
    => /\ Has(last.trace, {"authn_fail"})
          => (last.kind = "response" /\ last.status = 401)
       /\ Has(last.trace, {"deny"})
          => (last.kind = "response" /\ last.status = 403 /\ last.err = "Access denied")

\* ------------------------------------------ registration and role checks
\* the role and userType strings a caller can send: the defined values and
\* one value outside each set
RoleStrings == UserRoles \cup {"SUPERUSER"}
UserTypeStrings == UserTypes \cup {"VISITOR"}

RegisterInputs ==
    [role : RoleStrings, userType : UserTypeStrings,
     consentGiven : BOOLEAN, strongPassword : BOOLEAN]

FreshUsers == {"u3", "u4"}

\* validateUserRoleAndType below is applied to the state the calls have
\* left: no call follows it
RegisterCall ==
    /\ callNo < MaxCallsAll
    /\ ~validated.called
    /\ \E hasInput \in BOOLEAN, input \in RegisterInputs, signUp \in SignUpOutcomes,
          confirm \in ConfirmOutcomes, cognito \in CognitoOutcomes, auditOk \in BOOLEAN,
          dbOk \in BOOLEAN, internal \in InternalMessages,
          newId \in FreshUsers \ (users \cup userPool) :
        LET out == authHandlerRegister(hasInput, input, signUp, newId, dbOk, confirm, cognito,
                                       auditOk, internal, users, callNo + 1)
        IN  /\ users' = out.res.tbl
            /\ audit' = audit \o out.res.entries
            /\ callNo' = callNo + 1
            /\ last' = LastCall("auth", "register", NoIdentity,
                                [sub |-> newId, role |-> input.role], NoId, FALSE, out.res)
            /\ registered' = out.row
            /\ userPool' = userPool \cup out.pool
            /\ UNCHANGED <<patients, medical_records, appointments, accessLog>>
            /\ UNCHANGED <<validated, redactVars, cryptoVars, moreVars>>

ValidateUserRoleAndTypeCall ==
    /\ ~validated.called
    /\ \E role \in RoleStrings, userType \in UserTypeStrings :
        validated' = [role |-> role, userType |-> userType,
                      valid |-> validateUserRoleAndType(role, userType), called |-> TRUE]
    /\ UNCHANGED <<serviceVars, registered, userPool, redactVars, cryptoVars, moreVars>>

NextRegister == RegisterCall \/ ValidateUserRoleAndTypeCall

SpecRegister == Init /\ [][NextRegister]_vars

\* the category that goes with a role
MatchingCategory(role) ==
    CASE role \in {"ADMIN", "PROVIDER", "NURSE", "RECEPTIONIST", "STAFF"} -> "SERVICE_PROVIDER"
      [] role = "PATIENT" -> "CLIENT"
      [] role = "GUARDIAN" -> "GUARDIAN"
      [] OTHER -> "<no category>"

\* C18: every user account that register creates, and every pair that
\* validateUserRoleAndType accepts, has one of the seven defined roles
\* together with the category that matches it.
C18_RoleCategoryConsistent ==
    /\ registered # NoAccount
       => (registered.role \in UserRoles
           /\ registered.user_type = MatchingCategory(registered.role))
    /\ (validated.called /\ validated.valid)
       => (validated.role \in UserRoles
           /\ validated.userType = MatchingCategory(validated.role))

\* --------------------------------------------------- EncryptionService
\* The PHI strings: up to MaxLen code units, among them the two halves of a
\* surrogate pair.
MaxLen == 2

PhiChars == {"a", "HI", "LO"}

PhiTexts == UNION {[1..n -> PhiChars] : n \in 0..MaxLen}

Keys == {"k1", "k2"}
IVs == {"iv1", "iv2"}
KmsNonces == {"n1", "n2"}

InitCrypto ==
    /\ InitServices
    /\ snapshot = NoSnapshot
    /\ redacted = [by |-> "", value |-> NoSnapshot]
    /\ IdleRegister
    /\ phiText \in PhiTexts
    /\ dataKey \in Keys
    /\ packed = NoPacked
    /\ decrypted = NoDecryption
    /\ wrapped = NoText
    /\ unwrapped = NoOutcome
    /\ repacked = NoPacked
    /\ rewrapped = NoText
    /\ drawn = {}
    /\ IdleMore

\* crypto.randomBytes(16) and the generator of KMS: a value of 128 bits
\* drawn now is none of the values drawn before
randomBytes(used) == IVs \ used

kmsNonce(used) == KmsNonces \ used

\* the first call fills packed, a second call on the same string and key
\* fills repacked
EncryptPHICall ==
    /\ repacked = NoPacked
    /\ \E iv \in randomBytes(drawn) :
        /\ IF packed = NoPacked
           THEN packed' = encryptPHI(phiText, dataKey, iv) /\ UNCHANGED repacked
           ELSE repacked' = encryptPHI(phiText, dataKey, iv) /\ UNCHANGED packed
        /\ drawn' = drawn \cup {iv}
    /\ UNCHANGED <<serviceVars, redactVars, registerVars, moreVars>>
    /\ UNCHANGED <<phiText, dataKey, decrypted, wrapped, unwrapped, rewrapped>>

\* what a stored packed value can have become when it is read back: a part
\* replaced, the tag cut to its first bytes or computed under another key,
\* the ciphertext altered or written in upper-case digits, a part missing,
\* a part added
TagCuts == {2, 4, 8, 12}

Tamperings(p) ==
    {[p EXCEPT ![1] = toHex(iv)] : iv \in IVs \ {fromHex(p[1])}}
    \cup {[p EXCEPT ![2] = toHex([fromHex(p[2]) EXCEPT !.len = n])] : n \in TagCuts}
    \cup {[p EXCEPT ![2] = toHex([fromHex(p[2]) EXCEPT !.key = k])] :
            k \in Keys \ {fromHex(p[2]).key}}
    \cup {[p EXCEPT ![3] = toHex([fromHex(p[3]) EXCEPT !.bytes = <<"a">> \o @])],
          [p EXCEPT ![3].upper = TRUE],
          SubSeq(p, 1, 2), SubSeq(p, 1, 1),
          p \o <<toHex("iv1")>>}

DecryptPHICall ==
    /\ packed # NoPacked
    /\ ~decrypted.called
    /\ \E encryptedData \in Tamperings(packed) \cup {packed}, key \in Keys :
        LET out == decryptPHI(encryptedData, key)
        IN  decrypted' = [encryptedData |-> encryptedData, key |-> key, ok |-> out.ok,
                          text |-> out.text, cls |-> out.cls, called |-> TRUE]
    /\ UNCHANGED <<serviceVars, redactVars, registerVars, moreVars>>
    /\ UNCHANGED <<phiText, dataKey, packed, wrapped, unwrapped, repacked, rewrapped, drawn>>

\* kmsUp: whether KMS answers the request; the call throws when it does not
EncryptWithKMSCall ==
    /\ rewrapped = NoText
    /\ \E kmsUp \in BOOLEAN, nonce \in kmsNonce(drawn) :
        IF ~kmsUp
        THEN UNCHANGED <<wrapped, rewrapped, drawn>>
        ELSE /\ IF wrapped = NoText
                THEN wrapped' = encryptWithKMS(phiText, nonce) /\ UNCHANGED rewrapped
                ELSE rewrapped' = encryptWithKMS(phiText, nonce) /\ UNCHANGED wrapped
             /\ drawn' = drawn \cup {nonce}
    /\ UNCHANGED <<serviceVars, redactVars, registerVars, moreVars>>
    /\ UNCHANGED <<phiText, dataKey, packed, decrypted, unwrapped, repacked>>

DecryptWithKMSCall ==
    /\ wrapped # NoText
    /\ unwrapped = NoOutcome
    /\ \E kmsUp \in BOOLEAN :
        unwrapped' = IF kmsUp THEN decryptWithKMS(wrapped) ELSE [ok |-> FALSE, text |-> <<>>]
    /\ UNCHANGED <<serviceVars, redactVars, registerVars, moreVars>>
    /\ UNCHANGED <<phiText, dataKey, packed, decrypted, wrapped, repacked, rewrapped, drawn>>

NextCrypto ==
    \/ EncryptPHICall
    \/ DecryptPHICall
    \/ EncryptWithKMSCall
    \/ DecryptWithKMSCall

SpecCrypto == InitCrypto /\ [][NextCrypto]_vars

\* decryptPHI was applied to what encryptPHI returned, with the same key
RoundTripPHI ==
    decrypted.called /\ decrypted.encryptedData = packed /\ decrypted.key = dataKey

\* text.isWellFormed(): every surrogate half has its partner
RECURSIVE isWellFormed(_)
isWellFormed(text) ==
    IF text = <<>> THEN TRUE
    ELSE IF Head(text) = "HI"
    THEN Len(text) >= 2 /\ text[2] = "LO" /\ isWellFormed(SubSeq(text, 3, Len(text)))
    ELSE Head(text) # "LO" /\ isWellFormed(Tail(text))

\* C19 as stated: for every string P, the empty one included, and every key
\* K, decryptPHI(encryptPHI(P, K), K) returns P, and
\* decryptWithKMS(encryptWithKMS(P)) returns P.
C19_RoundTripAnyString ==
    /\ RoundTripPHI => (decrypted.ok /\ decrypted.text = phiText)
    /\ unwrapped.ok => unwrapped.text = phiText

\* C19 amended: for every well-formed string P (one without an unpaired
\* surrogate), the empty one included, and every key K,
\* decryptPHI(encryptPHI(P, K), K) returns P, and
\* decryptWithKMS(encryptWithKMS(P)) returns P whenever KMS answers both
\* requests.
C19_RoundTrip ==
    isWellFormed(phiText)
    => /\ RoundTripPHI => (decrypted.ok /\ decrypted.text = phiText)
       /\ unwrapped.ok => unwrapped.text = phiText

\* a string holding a surrogate pair has made both round trips
C19_PairRoundTripped ==
    /\ phiText = <<"HI", "LO">>
    /\ RoundTripPHI
    /\ decrypted.text = phiText
    /\ unwrapped.ok
    /\ unwrapped.text = phiText

\* C20: decryptPHI applied to a packed value that is not the one encryptPHI
\* returned (a part differs, a part is missing), or with another key, fails
\* with a CryptoError and returns no plaintext.
C20_FailClosed ==
    (decrypted.called /\ (decrypted.encryptedData # packed \/ decrypted.key # dataKey))
    => (~decrypted.ok /\ decrypted.text = NoText /\ decrypted.cls = "CryptoError")

\* C21: two independent calls that encrypt the same string under the same
\* key return different ciphertext strings, for encryptPHI and for
\* encryptWithKMS: the iv (the nonce of KMS) is drawn anew for each call.
C21_FreshCiphertext ==
    /\ (packed # NoPacked /\ repacked # NoPacked) => packed # repacked
    /\ (wrapped # NoText /\ rewrapped # NoText) => wrapped # rewrapped

\* the same string has been encrypted twice by each of the two functions
C21_EncryptedTwice ==
    /\ packed # NoPacked
    /\ repacked # NoPacked
    /\ wrapped # NoText
    /\ rewrapped # NoText

\* ------------------------------------------------- shared: utils/compose
\* A handler is <<h>> for a business handler h, or <<m, inner>> for what
\* the middleware m returns when it is applied to the handler inner.
\* Applying a middleware builds the wrapping function and runs nothing of
\* it: every middleware of the shared package is
\*   (handler) => async (event, context) => { ... handler(event, context) ... }
ApplyMiddleware(middleware, acc) == <<middleware, acc>>

\* middlewares.reduceRight((acc, middleware) => middleware(acc), handler)
RECURSIVE reduceRight(_, _)
reduceRight(list, acc) ==
    IF list = <<>> THEN acc
    ELSE reduceRight(SubSeq(list, 1, Len(list) - 1), ApplyMiddleware(list[Len(list)], acc))

Reverse(list) == [i \in 1..Len(list) |-> list[Len(list) + 1 - i]]

\* compose folding the list from its first element
composeReduce(list, inner) == reduceRight(Reverse(list), inner)

\* compose(...middlewares)(handler)
compose(list, inner) == reduceRight(list, inner)

\* a call of a handler: a middleware is entered, calls the handler it
\* wraps and is left when that call has returned
RECURSIVE Invoke(_)
Invoke(h) ==
    IF Len(h) = 1 THEN <<<<"handle", h[1]>>>>
    ELSE <<<<"enter", h[1]>>>> \o Invoke(h[2]) \o <<<<"leave", h[1]>>>>

MaxMiddlewares == 3

MiddlewareNames == {"M1", "M2", "M3"}

MiddlewareLists == UNION {[1..n -> MiddlewareNames] : n \in 0..MaxMiddlewares}

H == <<"H">>

InitCompose ==
    /\ InitServices
    /\ IdleRedact
    /\ IdleRegister
    /\ IdleCrypto
    /\ middlewares \in MiddlewareLists
    /\ composed = NoHandler
    /\ entered = <<>>
    /\ IdleDb
    /\ IdleErrors
    /\ IdleRest

\* withMiddleware = compose(...): the pipeline is assembled
ComposeCall ==
    /\ composed = NoHandler
    /\ composed' = compose(middlewares, H)
    /\ UNCHANGED <<serviceVars, redactVars, registerVars, cryptoVars, dbVars, errorVars, restVars>>
    /\ UNCHANGED <<middlewares, entered>>

\* the assembled handler is called
InvokeCall ==
    /\ composed # NoHandler
    /\ entered = <<>>
    /\ entered' = Invoke(composed)
    /\ UNCHANGED <<serviceVars, redactVars, registerVars, cryptoVars, dbVars, errorVars, restVars>>
    /\ UNCHANGED <<middlewares, composed>>

NextCompose == ComposeCall \/ InvokeCall

SpecCompose == InitCompose /\ [][NextCompose]_vars

\* M1, ..., Mn entered in this order, then H, then Mn, ..., M1 left
InOrder(list) ==
    [i \in 1..Len(list) |-> <<"enter", list[i]>>]
    \o <<<<"handle", "H">>>>
    \o [i \in 1..Len(list) |-> <<"leave", list[Len(list) + 1 - i]>>]

\* C22: the handler compose(M1, ..., Mn)(H) enters the middlewares in the
\* order M1, ..., Mn, then H, and leaves them in the reverse order; with no
\* middleware it is H itself; assembling it enters nothing.
C22_ComposeOrder ==
    [][/\ composed' # composed
          => (entered' = <<>> /\ (middlewares = <<>> => composed' = H))
       /\ entered' # entered => entered' = InOrder(middlewares)]_vars

\* a handler composed of three different middlewares has been called
C22_ThreeEntered ==
    /\ middlewares = <<"M1", "M2", "M3">>
    /\ Len(entered) = 7

\* C23: a call of the patient pipeline, which withErrorHandler wraps, never
\* ends with an exception: whatever an inner layer throws, the caller gets
\* a response object.
C23_AlwaysAResponse ==
    last.svc = "patient" => (last.kind = "response" /\ last.status # 0)

\* the finally block of withAuditLog threw, the caller got a response
C23_AuditThrowAnswered ==
    /\ last.svc = "patient"
    /\ last.cls = "SyntaxError"
    /\ last.kind = "response"
    /\ last.status = 500

\* C24: every response that leaves the patient pipeline, error responses
\* included, carries the security headers withSecurityHeaders adds.
C24_SecurityHeadersOnAll ==
    (last.svc = "patient" /\ last.kind = "response") => last.secure

\* -------------------------------------------------------- DatabaseClient
\* db is the one DatabaseClient of the process; every call that uses the
\* database uses it. A call with plan "transaction" does what
\* createPatientRecord of seed-data does: beginTransaction, one insert,
\* commit, and rollback when any of these throws. A call with plan
\* "statement" sends one insert, as the services do. Each await of a
\* client method is a point where the other call can run.
DbPlans == {"transaction", "statement"}

InitDb ==
    /\ InitServices
    /\ IdleRedact
    /\ IdleRegister
    /\ IdleCrypto
    /\ IdleCompose
    /\ IdleErrors
    /\ IdleRest
    /\ transactionId = NoTx
    /\ rdsTx = NoRdsTx
    /\ persisted = {}
    /\ dbCalls \in [DbCalls -> {[plan |-> "transaction", pc |-> "begin", awaited |-> NoTx],
                                [plan |-> "statement", pc |-> "insert", awaited |-> NoTx]}]
    /\ dbLog = {}

dbFrame == <<serviceVars, redactVars, registerVars, cryptoVars, composeVars, errorVars, restVars>>

Goto(c, pc) == [dbCalls EXCEPT ![c].pc = pc]

\* beginTransaction up to its await: the cluster opens a transaction
BeginTransactionSend ==
    \E c \in DbCalls, t \in TxIds :
        /\ dbCalls[c].pc = "begin"
        /\ rdsTx[t].state = "none"
        /\ t = "t2" => rdsTx["t1"].state # "none"
        /\ rdsTx' = [rdsTx EXCEPT ![t] = [owner |-> c, state |-> "open", writes |-> {}]]
        /\ dbCalls' = [dbCalls EXCEPT ![c].pc = "beginning", ![c].awaited = t]
        /\ UNCHANGED <<transactionId, persisted, dbLog, dbFrame>>

\* beginTransaction after its await: this.transactionId = response.transactionId
BeginTransactionAssign ==
    \E c \in DbCalls :
        /\ dbCalls[c].pc = "beginning"
        /\ transactionId' = dbCalls[c].awaited
        /\ dbCalls' = Goto(c, "insert")
        /\ UNCHANGED <<rdsTx, persisted, dbLog, dbFrame>>

\* insert -> executeStatement: the command carries this.transactionId as it
\* is when the command is built. Without one the statement commits at
\* once; under an open transaction it is a write of that transaction;
\* under a transaction already ended the cluster rejects it. stmtOk: the
\* statement itself succeeds.
ExecuteStatement ==
    \E c \in DbCalls, stmtOk \in BOOLEAN :
        LET t == transactionId
            accepted == stmtOk /\ (t = NoTx \/ rdsTx[t].state = "open")
            transactional == dbCalls[c].plan = "transaction"
        IN  /\ dbCalls[c].pc = "insert"
            /\ dbLog' = dbLog \cup {[kind |-> "statement", by |-> c, tx |-> t]}
            /\ persisted' = IF accepted /\ t = NoTx THEN persisted \cup {c} ELSE persisted
            /\ rdsTx' = IF accepted /\ t # NoTx
                         THEN [rdsTx EXCEPT ![t].writes = @ \cup {c}] ELSE rdsTx
            /\ dbCalls' = Goto(c, IF ~transactional THEN (IF accepted THEN "done" ELSE "failed")
                                   ELSE IF accepted THEN "commit" ELSE "rollback")
            /\ UNCHANGED <<transactionId, dbFrame>>

\* commit up to its await
CommitSend ==
    \E c \in DbCalls :
        LET t == transactionId
        IN  /\ dbCalls[c].pc = "commit"
            /\ IF t = NoTx
               THEN /\ dbCalls' = Goto(c, "rollback")
                    /\ UNCHANGED <<rdsTx, persisted, dbLog>>
               ELSE /\ dbLog' = dbLog \cup {[kind |-> "commit", by |-> c, tx |-> t]}
                    /\ IF rdsTx[t].state = "open"
                       THEN /\ rdsTx' = [rdsTx EXCEPT ![t].state = "committed"]
                            /\ persisted' = persisted \cup rdsTx[t].writes
                            /\ dbCalls' = Goto(c, "committing")
                       ELSE /\ dbCalls' = Goto(c, "rollback")
                            /\ UNCHANGED <<rdsTx, persisted>>
            /\ UNCHANGED <<transactionId, dbFrame>>

\* rollback up to its await
RollbackSend ==
    \E c \in DbCalls :
        LET t == transactionId
        IN  /\ dbCalls[c].pc = "rollback"
            /\ IF t = NoTx
               THEN /\ dbCalls' = Goto(c, "failed")
                    /\ UNCHANGED <<rdsTx, dbLog>>
               ELSE /\ dbLog' = dbLog \cup {[kind |-> "rollback", by |-> c, tx |-> t]}
                    /\ IF rdsTx[t].state = "open"
                       THEN /\ rdsTx' = [rdsTx EXCEPT ![t].state = "rolled back", ![t].writes = {}]
                            /\ dbCalls' = Goto(c, "rolling back")
                       ELSE /\ dbCalls' = Goto(c, "failed")
                            /\ UNCHANGED rdsTx
            /\ UNCHANGED <<transactionId, persisted, dbFrame>>

\* commit and rollback after their await: this.transactionId = undefined
ClearTransaction ==
    \E c \in DbCalls :
        /\ dbCalls[c].pc \in {"committing", "rolling back"}
        /\ transactionId' = NoTx
        /\ dbCalls' = Goto(c, IF dbCalls[c].pc = "committing" THEN "done" ELSE "failed")
        /\ UNCHANGED <<rdsTx, persisted, dbLog, dbFrame>>

NextDb ==
    \/ BeginTransactionSend
    \/ BeginTransactionAssign
    \/ ExecuteStatement
    \/ CommitSend
    \/ RollbackSend
    \/ ClearTransaction

SpecDb == InitDb /\ [][NextDb]_vars

\* C25: no statement, commit or rollback that a call sends names a
\* transaction another call began, so no call commits or discards the
\* writes of another.
C25_TransactionNotShared ==
    /\ \A e \in dbLog : e.tx # NoTx => rdsTx[e.tx].owner = e.by
    /\ \A t \in TxIds : \A w \in rdsTx[t].writes : w = rdsTx[t].owner

\* --------------------------------------- records with dependent rows
\* one call of register or of the medical-record service
NextAtomic ==
    \/ RegisterCall
    \/ callNo < MaxCallsAll /\ MedicalRecordCall

SpecAtomic == Init /\ [][NextAtomic]_vars

\* C26: when a call of register or createMedicalRecord is reported as
\* failed, none of its writes remain: the user pool and the tables users,
\* medical_records and medical_record_access_logs are as before the call.
C26_AllOrNothing ==
    [][(last'.op \in {"register", "createMedicalRecord"} /\ last'.kind = "throw")
       => /\ userPool' = userPool
          /\ users' = users
          /\ medical_records' = medical_records
          /\ accessLog' = accessLog]_vars

\* ------------------------------------------------- errors at the boundary
\* the error classes of the repository: those of handler.ts, those of the
\* errors module, which the shared package exports and the services
\* import, and the built-in ones
ErrorsModule ==
    {"errors.AppError", "errors.ValidationError", "errors.UnauthorizedError",
     "errors.ForbiddenError", "errors.NotFoundError", "errors.ConflictError"}

\* the errors of node's crypto, of the RDS Data API and of the runtime
UnexpectedErrors == {"Error", "TypeError", "SyntaxError"}

\* the codes of the Cognito errors the catch blocks test for
CognitoErrors ==
    {"NotAuthorizedException", "UserNotConfirmedException", "UsernameExistsException"}

ErrorClasses == HandlerAppErrors \cup ErrorsModule \cup UnexpectedErrors \cup CognitoErrors

\* the places where an error leaves the program
Boundaries == {"withErrorHandler", "login", "register"}

\* what the caller receives when error e reaches the boundary by: the
\* response of withErrorHandler, or the error login or register throws,
\* which the handler of auth-service rethrows unchanged to AppSync
answerOf(by, e) ==
    IF by = "withErrorHandler"
    THEN LET r == withErrorHandler(Throw(e.cls, e.err, <<>>, {}), 1)
         IN  [called |-> r.kind = "response", by |-> by, status |-> r.status, code |-> r.code,
              err |-> r.err]
    ELSE LET in == [cls |-> e.cls, code |-> CodeOf(e.cls), err |-> e.err]
             out == IF by = "login" THEN loginCatch(in) ELSE registerCatch(in)
         IN  [called |-> TRUE, by |-> by, status |-> StatusOf(out.cls), code |-> out.code,
              err |-> out.err]

ErrorMessages == {"connection refused", "relation users does not exist", "bad input", "denied"}

InitErrors ==
    /\ InitServices
    /\ IdleRedact
    /\ IdleRegister
    /\ IdleCrypto
    /\ IdleCompose
    /\ IdleDb
    /\ IdleRest
    /\ thrown \in [cls : ErrorClasses, err : ErrorMessages]
    /\ answered = NoResponse

\* the wrapped handler throws the error, withErrorHandler answers
WithErrorHandlerCall ==
    /\ ~answered.called
    /\ answered' = answerOf("withErrorHandler", thrown)
    /\ UNCHANGED <<serviceVars, redactVars, registerVars, cryptoVars, composeVars, dbVars, restVars>>
    /\ UNCHANGED thrown

\* the try block of login throws the error, its catch answers
LoginCatchCall ==
    /\ ~answered.called
    /\ answered' = answerOf("login", thrown)
    /\ UNCHANGED <<serviceVars, redactVars, registerVars, cryptoVars, composeVars, dbVars, restVars>>
    /\ UNCHANGED thrown

\* the try block of register throws the error, its catch answers
RegisterCatchCall ==
    /\ ~answered.called
    /\ answered' = answerOf("register", thrown)
    /\ UNCHANGED <<serviceVars, redactVars, registerVars, cryptoVars, composeVars, dbVars, restVars>>
    /\ UNCHANGED thrown

NextErrors == WithErrorHandlerCall \/ LoginCatchCall \/ RegisterCatchCall

SpecErrors == InitErrors /\ [][NextErrors]_vars

\* C27: an error of a canonical kind thrown inside a handler that
\* withErrorHandler wraps is answered with the status and code of its kind
\* (ValidationError 400, UnauthorizedError 401, ForbiddenError 403,
\* NotFoundError 404, ConflictError 409, anything else 500), for the
\* classes of the errors module as for those of handler.ts.
C27_CanonicalStatus ==
    answered.called /\ answered.by = "withErrorHandler"
    => /\ answered.status = StatusOf(thrown.cls)
       /\ thrown.cls \in (HandlerAppErrors \cup ErrorsModule) \ {"handler.AppError", "errors.AppError"}
          => answered.code = CodeOf(thrown.cls)

\* C28: an unexpected error (cryptography, persistence, runtime) is
\* answered with status 500 and with a code and a message that do not
\* depend on it: the same error with any other message gets the same answer.
C28_GenericInternalError ==
    answered.called /\ thrown.cls \in UnexpectedErrors
    => /\ answered.status = 500
       /\ \A m \in ErrorMessages : answerOf(answered.by, [thrown EXCEPT !.err = m]) = answered

\* ------------------------------------------------------- request validation
\* validation.ts: what the Joi schemas accept, on the fields the bodies of
\* the model carry. updatePatientSchema wants at least one of demographics,
\* insurance, preferredLanguage; searchPatientSchema wants query;
\* createPatientSchema wants firstName, lastName and demographics, which no
\* input of the model carries
updatePatientSchema(input) == input.preferredLanguage # NoId

searchPatientSchema(query) == query # NoId

createPatientSchema(input) == FALSE

\* the operations validation.ts has a schema for
SchemaOperations == {"createPatient", "updatePatient", "searchPatients"}

\* the body satisfies the schema of its operation
SchemaAccepts(body) ==
    CASE body.fieldName = "updatePatient" -> updatePatientSchema(body.input)
      [] body.fieldName = "searchPatients" -> searchPatientSchema(body.query)
      [] body.fieldName = "createPatient" -> createPatientSchema(body.input)
      [] OTHER -> TRUE

\* validateRequest: how often it calls the handler it wraps. JSON.parse
\* and schema.validate come first; the handler is called once when neither
\* throws and validate reports no error
handlerCalls(schema, event) ==
    IF ~event.body.valid \/ ~schema.hasValidate THEN 0
    ELSE IF event.body \notin schema.accepts THEN 0
    ELSE 1

ValidateTokens == (Identities \ {NoIdentity}) \cup {NoToken, BadToken}

InitValidate ==
    /\ InitServices
    /\ IdleRedact
    /\ IdleRegister
    /\ IdleCrypto
    /\ IdleCompose
    /\ IdleDb
    /\ IdleErrors
    /\ IdleQuery
    /\ IdleLate
    /\ requested \in [token : ValidateTokens, body : PatientBodies]
    /\ responded = NoReply

\* the exported handler of patient-service on the request
ValidateRequestCall ==
    /\ ~responded.called
    /\ \E freshId \in Fresh(patients) :
        LET identity == [sub |-> "u1", role |-> "PATIENT"]
            event == PatientEvent(requested.token, identity, requested.body, NoIdentity)
        IN  \E first \in FirstRows(patients, convertToAppSyncHandler(identity)) :
            LET res == handler(event, first, freshId, patients, callNo + 1)
            IN  /\ patients' = res.tbl
                /\ audit' = audit \o res.entries
                /\ callNo' = callNo + 1
                /\ last' = LastCall("patient", requested.body.fieldName, requested.token,
                                    identity, requested.body.id,
                                    requested.body.id \in PatientIds
                                        /\ patients[requested.body.id].exists, res)
                /\ responded' =
                        [called |-> TRUE, status |-> res.status, code |-> res.code,
                         handled |-> IF requested.token \in {NoToken, BadToken} THEN 0
                                     ELSE handlerCalls(patientSchema, event)]
    /\ UNCHANGED <<medical_records, appointments, users, accessLog>>
    /\ UNCHANGED <<redactVars, registerVars, cryptoVars, composeVars, dbVars, errorVars,
                   queryVars, lateVars>>
    /\ UNCHANGED requested

NextValidate == ValidateRequestCall

SpecValidate == InitValidate /\ [][NextValidate]_vars

\* C29: a request with a valid token is answered 400 VALIDATION_ERROR
\* exactly when its body is not JSON or does not satisfy the schema of its
\* operation, and a request whose body satisfies the schema reaches the
\* wrapped handler exactly once.
C29_ValidationExact ==
    (/\ responded.called
     /\ requested.token \notin {NoToken, BadToken}
     /\ requested.body.valid => requested.body.fieldName \in SchemaOperations)
    => LET ok == requested.body.valid /\ SchemaAccepts(requested.body)
       IN  /\ (responded.status = 400 /\ responded.code = "VALIDATION_ERROR") <=> ~ok
           /\ ok => responded.handled = 1

\* ------------------------------------------------------------ audit lookup
\* An item of the audit table is the entry createAuditLog was given plus
\* timestamp and ttl. The callers build an AuditLogEntry, which has a field
\* resource and no field resourceType: resourceType = NoId is an item
\* without that attribute.
MaxEntries == 2

\* uuidv4(): the ids of the entries, in the order they are drawn
EntryIds == <<"e1", "e2", "e3", "e4">>

\* new Date().toISOString(), which orders as time does
Times == 1..2

AuditUsers == {"u1", "anonymous"}

\* options.resourceType of withAuditLog, event.path in withErrorHandler
AuditResources == {"PATIENT", "/patients"}

\* the auditEntry the finally block of withAuditLog builds
auditEntry(id, userId, resource, phiAccessed) ==
    [id |-> id, timestamp |-> 0, userId |-> userId, resource |-> resource,
     phiAccessed |-> phiAccessed, resourceType |-> NoId, ttl |-> 0]

\* createAuditLog: put of the entry under its own timestamp and with the
\* ttl of that second; the item of the same key (id, timestamp) is
\* replaced, a failed put is only logged
createAuditLog(entry, timestamp, putOk, table) ==
    IF ~putOk THEN table
    ELSE {i \in table : ~(i.id = entry.id /\ i.timestamp = timestamp)}
         \cup {[entry EXCEPT !.timestamp = timestamp, !.ttl = timestamp + SevenYears]}

\* the global secondary index ResourceTypeIndex (hash resourceType, range
\* timestamp, projection ALL): it holds the items that have the attribute
ResourceTypeIndex(table) == {i \in table : i.resourceType # NoId}

\* the place of an id in the order the ids were drawn
Rank(id) == CHOOSE n \in 1..Len(EntryIds) : EntryIds[n] = id

\* item i comes before item j in the index read backwards
\* (ScanIndexForward: false): newer first, the table key deciding a tie
Later(i, j) ==
    \/ i.timestamp > j.timestamp
    \/ i.timestamp = j.timestamp /\ Rank(i.id) > Rank(j.id)

RECURSIVE SortDesc(_)
SortDesc(items) ==
    IF items = {} THEN <<>>
    ELSE LET top == CHOOSE i \in items : \A j \in items : i = j \/ Later(i, j)
         IN  <<top>> \o SortDesc(items \ {top})

\* LastEvaluatedKey: the table key and the index key of an item
KeyOf(i) == [id |-> i.id, timestamp |-> i.timestamp, resourceType |-> i.resourceType]

\* Buffer.from(JSON.stringify(key)).toString('base64') and back
encodeToken(key) == toBase64(<<key>>)

decodeToken(nextToken) == Head(fromBase64(nextToken))

\* queryAuditLogs: Query on ResourceTypeIndex by resourceType, with the
\* time range when both dates are given, newest first, from
\* ExclusiveStartKey on; Limit (filters.limit || 50) bounds the items read,
\* the FilterExpression is applied to those, and LastEvaluatedKey is the
\* key of the last item read when the limit stopped the query
queryAuditLogs(filters, table) ==
    LET resourceType == IF filters.resource # NoId THEN filters.resource ELSE "ALL"
        between(i) == (filters.startDate # 0 /\ filters.endDate # 0)
                      => (filters.startDate <= i.timestamp /\ i.timestamp <= filters.endDate)
        keyed == SortDesc({i \in ResourceTypeIndex(table) :
                              i.resourceType = resourceType /\ between(i)})
        after(i) == filters.nextToken = <<>> \/ Later(decodeToken(filters.nextToken), i)
        rest == SelectSeq(keyed, after)
        Limit == IF filters.limit # 0 THEN filters.limit ELSE 50
        read == SubSeq(rest, 1, IF Len(rest) < Limit THEN Len(rest) ELSE Limit)
        passes(i) == /\ filters.userId # NoId => i.userId = filters.userId
                     /\ filters.phiAccessed # {} => i.phiAccessed \in filters.phiAccessed
    IN  [items |-> SelectSeq(read, passes),
         nextToken |-> IF Len(rest) >= Limit THEN encodeToken(KeyOf(read[Len(read)]))
                       ELSE <<>>]

\* the elements of a sequence
Range(seq) == {seq[n] : n \in 1..Len(seq)}

Filters ==
    {f \in [userId : {NoId, "u1"}, resource : {NoId, "PATIENT"},
            phiAccessed : {{}, {TRUE}}, startDate : {0} \cup Times,
            endDate : {0, 2}, limit : {0}, nextToken : {<<>>}] :
        f.startDate <= f.endDate \/ f.endDate = 0}

InitAudit ==
    /\ InitServices
    /\ IdleRedact
    /\ IdleRegister
    /\ IdleCrypto
    /\ IdleCompose
    /\ IdleDb
    /\ IdleErrors
    /\ IdleValidate
    /\ IdleQuery
    /\ IdleLate

\* the time of the newest item
Newest(table) ==
    IF table = {} THEN 1
    ELSE CHOOSE t \in Times :
            /\ \A i \in table : i.timestamp <= t
            /\ \E j \in table : j.timestamp = t

\* an entry is written through createAuditLog: the entry withAuditLog and
\* withErrorHandler build, or (keyed) the entry of a caller of the
\* exported function that also sets the attribute the index is keyed on
CreateAuditLogCall ==
    /\ Cardinality(auditTable) < MaxEntries
    /\ \E userId \in AuditUsers, resource \in AuditResources, phiAccessed \in BOOLEAN,
          timestamp \in Times, putOk \in BOOLEAN, keyed \in BOOLEAN :
        LET built == auditEntry(EntryIds[Cardinality(auditTable) + 1], userId, resource,
                                phiAccessed)
            entry == IF keyed THEN [built EXCEPT !.resourceType = resource] ELSE built
        IN  /\ timestamp >= Newest(auditTable)
            /\ auditTable' = createAuditLog(entry, timestamp, putOk, auditTable)
    /\ UNCHANGED <<queried, paged>>
    /\ UNCHANGED <<serviceVars, redactVars, registerVars, cryptoVars, composeVars, dbVars,
                   errorVars, validateVars, lateVars>>

QueryAuditLogsCall ==
    /\ \E filters \in Filters :
        queried' = [called |-> TRUE, filters |-> filters,
                    items |-> Range(queryAuditLogs(filters, auditTable).items)]
    /\ UNCHANGED <<auditTable, paged>>
    /\ UNCHANGED <<serviceVars, redactVars, registerVars, cryptoVars, composeVars, dbVars,
                   errorVars, validateVars, lateVars>>

NextAudit == CreateAuditLogCall \/ QueryAuditLogsCall

SpecAudit == InitAudit /\ [][NextAudit]_vars

\* the entry matches the filters: its resource, its time when both dates
\* are given, its actor, its phiAccessed flag
Matches(i, f) ==
    /\ f.resource # NoId => i.resource = f.resource
    /\ (f.startDate # 0 /\ f.endDate # 0)
       => (f.startDate <= i.timestamp /\ i.timestamp <= f.endDate)
    /\ f.userId # NoId => i.userId = f.userId
    /\ f.phiAccessed # {} => i.phiAccessed \in f.phiAccessed

\* C30: a call of queryAuditLogs returns all and only the entries stored
\* through createAuditLog that match its filters (resource and time range,
\* actor, phiAccessed flag).
C30_AuditLookup ==
    [][(auditTable' = auditTable /\ queried'.called)
       => queried'.items = {i \in auditTable : Matches(i, queried'.filters)}]_vars

\* ------------------------------------------------------------ audit paging
\* a caller walks the pages: the first call has no nextToken, each later
\* call passes the nextToken of the page before, until none is returned
PagingFilters ==
    {f \in [userId : {NoId, "u1"}, resource : {NoId, "PATIENT"}, phiAccessed : {{}},
            startDate : {0, 1}, endDate : {0, 2}, limit : {0, 1}, nextToken : {<<>>}] :
        (f.startDate = 0) = (f.endDate = 0)}

StartPagingCall ==
    /\ ~paged.active
    /\ \E filters \in PagingFilters :
        LET page == queryAuditLogs(filters, auditTable)
        IN  paged' = [active |-> TRUE, filters |-> filters, table |-> auditTable,
                      token |-> page.nextToken, seen |-> page.items,
                      done |-> page.nextToken = <<>>]
    /\ UNCHANGED <<auditTable, queried>>
    /\ UNCHANGED <<serviceVars, redactVars, registerVars, cryptoVars, composeVars, dbVars,
                   errorVars, validateVars, lateVars>>

NextPageCall ==
    /\ paged.active
    /\ ~paged.done
    /\ LET page == queryAuditLogs([paged.filters EXCEPT !.nextToken = paged.token],
                                  auditTable)
       IN  paged' = [paged EXCEPT !.token = page.nextToken, !.seen = @ \o page.items,
                                  !.done = page.nextToken = <<>>]
    /\ UNCHANGED <<auditTable, queried>>
    /\ UNCHANGED <<serviceVars, redactVars, registerVars, cryptoVars, composeVars, dbVars,
                   errorVars, validateVars, lateVars>>

NextPaging == CreateAuditLogCall \/ StartPagingCall \/ NextPageCall

SpecPaging == InitAudit /\ [][NextPaging]_vars

\* C31: a walk through the pages that ran to its end while nothing was
\* appended has yielded every stored entry matching the filters exactly
\* once, newest first.
C31_PagingComplete ==
    (paged.done /\ auditTable = paged.table)
    => paged.seen = SortDesc({i \in auditTable : Matches(i, paged.filters)})

\* C32: every audit entry a call has persisted, in the audit table of
\* createAuditLog or in audit_logs by a service's logHipaaEvent, carries
\* an expiry equal to the time it was created at plus seven years.
C32_RetentionExpiry ==
    \A n \in 1..Len(audit) : audit[n].ttl = audit[n].call + SevenYears

\* ------------------------------------------- EncryptionService: masking
\* text.substring(from, to): both ends are clamped to 0..length and
\* swapped when from > to
Clamp(n, len) == IF n < 0 THEN 0 ELSE IF n > len THEN len ELSE n

substring(text, from, to) ==
    LET a == Clamp(from, Len(text))
        b == Clamp(to, Len(text))
    IN  IF a <= b THEN SubSeq(text, a + 1, b) ELSE SubSeq(text, b + 1, a)

\* '*'.repeat(n)
repeat(n) == [k \in 1..n |-> "*"]

\* EncryptionService.maskSensitiveData(data, visibleChars)
maskSensitiveData(data, visibleChars) ==
    IF data = <<>> \/ Len(data) <= visibleChars * 2
    THEN repeat(4)
    ELSE LET start == substring(data, 0, visibleChars)
             end == substring(data, Len(data) - visibleChars, Len(data))
             middle == Len(data) - visibleChars * 2
             masked == repeat(IF middle > 4 THEN middle ELSE 4)
         IN  start \o masked \o end

MaxData == 6

DataChars == {"x", "y"}

RECURSIVE TextsUpTo(_)
TextsUpTo(n) ==
    IF n = 0 THEN {<<>>}
    ELSE LET shorter == TextsUpTo(n - 1)
         IN  shorter \cup {Append(t, c) : t \in {u \in shorter : Len(u) = n - 1}, c \in DataChars}

MaskData == TextsUpTo(MaxData)

VisibleChars == 0..2

InitMask ==
    /\ InitServices
    /\ IdleRedact
    /\ IdleRegister
    /\ IdleCrypto
    /\ IdleCompose
    /\ IdleDb
    /\ IdleErrors
    /\ IdleValidate
    /\ IdleQuery
    /\ IdleBooking
    /\ IdleAdmitting
    /\ IdleRouting
    /\ masking \in [data : MaskData, visibleChars : VisibleChars, out : {<<>>}, called : {FALSE}]

MaskSensitiveDataCall ==
    /\ ~masking.called
    /\ masking' = [masking EXCEPT !.out = maskSensitiveData(masking.data, masking.visibleChars),
                                  !.called = TRUE]
    /\ UNCHANGED <<serviceVars, redactVars, registerVars, cryptoVars, composeVars, dbVars,
                   errorVars, validateVars, queryVars, booking, admitting, routing>>

NextMask == MaskSensitiveDataCall

SpecMask == InitMask /\ [][NextMask]_vars

\* what data shows outside its middle: its first n and last n characters,
\* nothing when it has at most 2n characters
Shown(data, n) ==
    IF Len(data) <= 2 * n THEN <<>>
    ELSE <<SubSeq(data, 1, n), SubSeq(data, Len(data) - n + 1, Len(data))>>

\* C33: what maskSensitiveData returns depends only on the first N and the
\* last N characters of data: any other data with the same first and last
\* N characters, whatever its middle and its length, gives the same result,
\* and all data of at most 2N characters give the same result.
C33_MaskRevealsOnlyEnds ==
    masking.called
    => \A other \in MaskData :
          Shown(other, masking.visibleChars) = Shown(masking.data, masking.visibleChars)
          => maskSensitiveData(other, masking.visibleChars) = masking.out

FunctionRoleAllows(op, role) ==
    CASE op = "getPatient" -> role = "PATIENT" \/ getPatientRoleStaff(role)
      [] op \in {"listPatients", "searchPatients"} -> listPatientsRoleAllowed(role)
      [] op = "createPatient" -> createPatientRoleAllowed(role)
      [] op = "updatePatient" -> updatePatientRoleAllowed(role)
      [] op = "deletePatient" -> deletePatientRoleAllowed(role)
      [] OTHER -> FALSE

\* C35: the two authorization layers of patient-service agree: a call the
\* business handler of the lambda allowed is allowed by the role check of
\* the patient function it calls, and a call the lambda denied on account
\* of the role (a role other than PATIENT and GUARDIAN, for which the
\* lambda looks at the patient asked for) is denied by that role check too.
C35_LayersAgree ==
    (last.svc = "patient-adapted" /\ last.trace # <<>>)
    => /\ Head(last.trace) = "allow" => FunctionRoleAllows(last.op, last.ctx.role)
       /\ (Head(last.trace) = "deny" /\ last.ctx.role \notin {"PATIENT", "GUARDIAN"})
          => ~FunctionRoleAllows(last.op, last.ctx.role)

\* ------------------------------------------------- concurrent bookings
\* Calls of appointment-service run in separate invocations on one
\* database; no statement of createAppointment or updateAppointment runs in
\* a transaction, and table appointments has no unique constraint on
\* (provider_id, appointment_date). A createAppointment is two steps: its
\* queries (patient, authorization, conflicting appointment), then its
\* insert and logHipaaEvent.
MaxBookingCalls == 3

\* table appointments before any appointment is made
NoAppointments ==
    [a \in AppointmentIds |->
        [exists |-> FALSE, patient_id |-> NoId, provider_id |-> NoId,
         appointment_date |-> NoId, status |-> NoId]]

BookingIdentities == {[sub |-> "u2", role |-> "PROVIDER"], [sub |-> "u1", role |-> "PATIENT"]}

BookingInputs ==
    [patientId : {"p1", "p2"}, providerId : {"u2"}, appointmentDate : Dates, status : {NoId}]

InitBooking ==
    /\ patients = SeedPatients
    /\ medical_records = [r \in RecordIds |->
                             [exists |-> FALSE, patient_id |-> NoId, provider_id |-> NoId,
                              is_active |-> FALSE, content |-> "c1"]]
    /\ appointments = NoAppointments
    /\ users = Subs
    /\ audit = <<>>
    /\ accessLog = 0
    /\ callNo = 0
    /\ last = LastCall("", "", NoIdentity, NoIdentity, NoId, FALSE,
                       [Result("", {}, <<>>, <<>>, <<>>) EXCEPT !.kind = "none"])
    /\ IdleRedact
    /\ IdleRegister
    /\ IdleCrypto
    /\ IdleCompose
    /\ IdleDb
    /\ IdleErrors
    /\ IdleValidate
    /\ IdleQuery
    /\ IdleMask
    /\ IdleBooking
    /\ IdleAdmitting
    /\ IdleRouting

bookingFrame ==
    <<redactVars, registerVars, cryptoVars, composeVars, dbVars, errorVars, validateVars,
      queryVars, masking, admitting, routing>>

\* createAppointment up to its insert: the patient query, the
\* authorization check and the query for a conflicting appointment
CreateAppointmentCheck(c) ==
    /\ booking[c].pc = "idle"
    /\ \E input \in BookingInputs, identity \in BookingIdentities :
        LET err == IF ~patients[input.patientId].exists THEN "Patient not found"
                   ELSE IF createAppointmentDenied(identity.role, identity.sub,
                                                   patients[input.patientId].user_id)
                   THEN "Cannot create appointment for another patient"
                   ELSE IF conflictingAppointment(input, appointments)
                   THEN "Time slot is not available"
                   ELSE ""
        IN  booking' = [booking EXCEPT ![c] =
                           [pc |-> IF err = "" THEN "insert" ELSE "done", identity |-> identity,
                            err |-> err, input |-> input]]
    /\ UNCHANGED serviceVars
    /\ UNCHANGED bookingFrame

\* the rest of createAppointment: db.insert under a new id, logHipaaEvent
CreateAppointmentInsert(c) ==
    /\ booking[c].pc = "insert"
    /\ callNo < MaxBookingCalls
    /\ \E appointmentId \in FreshIds(appointments) :
        LET input == booking[c].input
            res == Result("", {appointmentId}, <<"fetch", "allow", "mutate", "audit">>,
                          <<AuditEntry(callNo + 1, "sql", TRUE, 0)>>,
                          [appointments EXCEPT ![appointmentId] =
                              [exists |-> TRUE, patient_id |-> input.patientId,
                               provider_id |-> input.providerId,
                               appointment_date |-> input.appointmentDate,
                               status |-> "SCHEDULED"]])
        IN  /\ appointments' = res.tbl
            /\ audit' = audit \o res.entries
            /\ last' = LastCall("appointment", "createAppointment", NoIdentity,
                                booking[c].identity, NoId, FALSE, res)
    /\ callNo' = callNo + 1
    /\ booking' = [booking EXCEPT ![c].pc = "done"]
    /\ UNCHANGED <<patients, medical_records, users, accessLog>>
    /\ UNCHANGED bookingFrame

\* updateAppointment of an appointment, with a new date
UpdateAppointmentCall ==
    /\ callNo < MaxBookingCalls
    /\ \E id \in AppointmentIds, date \in Dates, identity \in BookingIdentities :
        LET input == [patientId |-> NoId, providerId |-> NoId, appointmentDate |-> date,
                      status |-> NoId]
            res == appointmentHandler("updateAppointment", id, input, NoId, identity,
                                      appointments, patients, callNo + 1)
        IN  /\ appointments' = res.tbl
            /\ audit' = audit \o res.entries
            /\ last' = LastCall("appointment", "updateAppointment", NoIdentity, identity, id,
                                appointments[id].exists, res)
    /\ callNo' = callNo + 1
    /\ UNCHANGED <<patients, medical_records, users, accessLog>>
    /\ UNCHANGED booking
    /\ UNCHANGED bookingFrame

NextBooking ==
    \/ \E c \in BookingCalls : CreateAppointmentCheck(c)
    \/ \E c \in BookingCalls : CreateAppointmentInsert(c)
    \/ UpdateAppointmentCall

SpecBooking == InitBooking /\ [][NextBooking]_vars

\* C36: no two appointments that are neither CANCELLED nor NO_SHOW have
\* the same provider and the same appointment date.
C36_NoDoubleBooking ==
    \A a, b \in AppointmentIds :
        (a # b /\ Booked(appointments[a]) /\ Booked(appointments[b]))
        => ~(/\ appointments[a].provider_id = appointments[b].provider_id
             /\ appointments[a].appointment_date = appointments[b].appointment_date)

\* ------------------------------------------- concurrent createPatient
\* INSERT INTO patients under the constraint mrn UNIQUE of
\* init-database.sql: the statement fails when a row has the mrn already
insertPatientUnconstrained(row, patientId, pats) ==
    [ok |-> TRUE, tbl |-> [pats EXCEPT ![patientId] = row]]

insertPatient(row, patientId, pats) ==
    IF \E p \in DOMAIN pats : pats[p].exists /\ pats[p].mrn = row.mrn
    THEN [ok |-> FALSE, tbl |-> pats]
    ELSE [ok |-> TRUE, tbl |-> [pats EXCEPT ![patientId] = row]]

\* table patients before any patient is created
NoPatients ==
    [p \in PatientIds |->
        [exists |-> FALSE, user_id |-> NoId, is_active |-> FALSE, mrn |-> 0, lang |-> "en"]]

AdmittingIdentities ==
    {[sub |-> "u1", role |-> "ADMIN"], [sub |-> "u2", role |-> "RECEPTIONIST"],
     [sub |-> "u2", role |-> "NURSE"]}

InitAdmitting ==
    /\ patients = NoPatients
    /\ medical_records = [r \in RecordIds |->
                             [exists |-> FALSE, patient_id |-> NoId, provider_id |-> NoId,
                              is_active |-> FALSE, content |-> "c1"]]
    /\ appointments = NoAppointments
    /\ users = Subs
    /\ audit = <<>>
    /\ accessLog = 0
    /\ callNo = 0
    /\ last = LastCall("", "", NoIdentity, NoIdentity, NoId, FALSE,
                       [Result("", {}, <<>>, <<>>, <<>>) EXCEPT !.kind = "none"])
    /\ IdleRedact
    /\ IdleRegister
    /\ IdleCrypto
    /\ IdleCompose
    /\ IdleDb
    /\ IdleErrors
    /\ IdleValidate
    /\ IdleQuery
    /\ IdleMask
    /\ IdleBooking
    /\ IdleAdmitting
    /\ IdleRouting

admittingFrame ==
    <<redactVars, registerVars, cryptoVars, composeVars, dbVars, errorVars, validateVars,
      queryVars, masking, booking, routing>>

\* the ids crypto.randomUUID() has handed to calls in flight
HeldIds == {admitting[c].patientId : c \in BookingCalls} \ {NoId}

\* createPatient up to its insert: the role check, randomUUID and
\* generateMRN, which counts the rows of patients
CreatePatientGenerateMRN(c) ==
    /\ admitting[c].pc = "idle"
    /\ \E identity \in AdmittingIdentities, userId \in Subs,
          patientId \in FreshIds(patients) \ HeldIds :
        admitting' = [admitting EXCEPT ![c] =
                         IF ~createPatientRoleAllowed(identity.role)
                         THEN [pc |-> "done", identity |-> identity, patientId |-> NoId,
                               userId |-> userId, mrn |-> 0, err |-> "Unauthorized"]
                         ELSE [pc |-> "insert", identity |-> identity, patientId |-> patientId,
                               userId |-> userId, mrn |-> generateMRN(patients), err |-> ""]]
    /\ UNCHANGED serviceVars
    /\ UNCHANGED admittingFrame

\* the rest of createPatient: db.insert, then getPatient of the new row
CreatePatientInsert(c) ==
    /\ admitting[c].pc = "insert"
    /\ LET call == admitting[c]
           row == [exists |-> TRUE, user_id |-> call.userId, is_active |-> TRUE,
                   mrn |-> call.mrn, lang |-> "en"]
           put == insertPatient(row, call.patientId, patients)
           created == getPatient(call.patientId, call.identity, call.patientId, put.tbl)
           res == IF ~put.ok
                  THEN Throw("Error", "duplicate key value violates unique constraint",
                             <<"allow", "encrypt">>, patients)
                  ELSE [created EXCEPT !.trace = <<"allow", "encrypt", "mutate">> \o @,
                                       !.tbl = put.tbl]
       IN  /\ patients' = res.tbl
           /\ last' = LastCall("patient-function", "createPatient", NoIdentity, call.identity,
                               call.patientId, FALSE, res)
           /\ admitting' = [admitting EXCEPT ![c].pc = "done", ![c].err = res.err]
    /\ callNo' = callNo + 1
    /\ UNCHANGED <<medical_records, appointments, users, audit, accessLog>>
    /\ UNCHANGED admittingFrame

NextAdmitting ==
    \/ \E c \in BookingCalls : CreatePatientGenerateMRN(c)
    \/ \E c \in BookingCalls : CreatePatientInsert(c)

SpecAdmitting == InitAdmitting /\ [][NextAdmitting]_vars

\* C37: no two rows of patients have the same MRN, whatever the
\* interleaving of the createPatient calls.
C37_UniqueMRN ==
    \A p, q \in PatientIds :
        (p # q /\ patients[p].exists /\ patients[q].exists)
        => patients[p].mrn # patients[q].mrn

\* two calls generated the same MRN, one inserted its row, the other was
\* refused by the database
C37_SameMRNRefused ==
    /\ admitting["c1"].pc = "done"
    /\ admitting["c2"].pc = "done"
    /\ admitting["c1"].mrn = admitting["c2"].mrn
    /\ admitting["c1"].mrn # 0
    /\ admitting["c1"].err = ""
    /\ admitting["c2"].err = "duplicate key value violates unique constraint"
    /\ patients[admitting["c1"].patientId].exists

\* ---------------------------------------------------- login routing
\* the roles staffLogin admits to the staff portal
staffPortalRoles == {"ADMIN", "PROVIDER", "NURSE", "STAFF"}

Routed(to, ok, err) == [routed |-> to, ok |-> ok, err |-> err]

staffLogin(role, credentials, row) ==
    IF credentials # "valid" THEN Routed("staffLogin", FALSE, "Invalid email or password")
    ELSE IF role = "" THEN Routed("staffLogin", FALSE, "User role not assigned")
    ELSE IF role \notin UserRoles THEN Routed("staffLogin", FALSE, "Invalid role")
    ELSE IF role \notin staffPortalRoles
         THEN Routed("staffLogin", FALSE, "Unauthorized access to staff portal")
    ELSE IF ~row THEN Routed("staffLogin", FALSE, "Staff account not found")
    ELSE Routed("staffLogin", TRUE, "")

patientLogin(role, userType, credentials, row) ==
    IF credentials # "valid" THEN Routed("patientLogin", FALSE, "Invalid email or password")
    ELSE IF role # "PATIENT"
         THEN Routed("patientLogin", FALSE, "Not authorized for patient access")
    ELSE IF ~validateUserRoleAndType(role, userType)
         THEN Routed("patientLogin", FALSE, "Invalid role and user type combination")
    ELSE IF ~row THEN Routed("patientLogin", FALSE, "Patient record not found")
    ELSE Routed("patientLogin", TRUE, "")

guardianLogin(credentials, row) ==
    IF credentials # "valid" THEN Routed("guardianLogin", FALSE, "Invalid email or password")
    ELSE IF ~row THEN Routed("guardianLogin", FALSE, "Guardian record not found")
    ELSE Routed("guardianLogin", TRUE, "")

\* case 'login' of the handler, after AdminGetUserCommand found the user
loginCase(role, userType, credentials, row) ==
    IF role = "" THEN Routed("", FALSE, "User role not assigned")
    ELSE IF userType = "" THEN Routed("", FALSE, "User type not assigned")
    ELSE IF ~validateUserRoleAndType(role, userType)
         THEN Routed("", FALSE, "Invalid role and user type combination")
    ELSE IF isStaffRole(role) THEN staffLogin(role, credentials, row)
    ELSE IF role = "PATIENT" THEN patientLogin(role, userType, credentials, row)
    ELSE IF role = "GUARDIAN" THEN guardianLogin(credentials, row)
    ELSE Routed("", FALSE, "Invalid user role")

InitRouting ==
    /\ InitServices
    /\ IdleRedact
    /\ IdleRegister
    /\ IdleCrypto
    /\ IdleCompose
    /\ IdleDb
    /\ IdleErrors
    /\ IdleValidate
    /\ IdleQuery
    /\ IdleMask
    /\ IdleBooking
    /\ IdleAdmitting
    /\ IdleRouting

LoginCaseCall ==
    /\ \E role \in UserRoles \cup {""}, userType \in UserTypes \cup {""},
          credentials \in {"valid", "invalid"}, row \in BOOLEAN :
        LET res == loginCase(role, userType, credentials, row)
        IN  routing' = [called |-> TRUE, role |-> role, userType |-> userType,
                        credentials |-> credentials, row |-> row,
                        routed |-> res.routed, ok |-> res.ok, err |-> res.err]
    /\ UNCHANGED serviceVars
    /\ UNCHANGED <<redactVars, registerVars, cryptoVars, composeVars, dbVars, errorVars,
                   validateVars, queryVars, masking, booking, admitting>>

NextRouting == LoginCaseCall

SpecRouting == InitRouting /\ [][NextRouting]_vars

\* C38: a login with valid credentials of a user whose role is a staff
\* role (isStaffRole) with the matching user type is routed to staffLogin
\* and staffLogin does not reject it on account of the role.
C38_StaffRoutingConsistent ==
    (/\ routing.called
     /\ isStaffRole(routing.role)
     /\ validateUserRoleAndType(routing.role, routing.userType)
     /\ routing.userType # ""
     /\ routing.credentials = "valid")
    => (/\ routing.routed = "staffLogin"
        /\ routing.err # "Unauthorized access to staff portal")

====
